---------------------------- MODULE Spec2Model ----------------------------
(***************************************************************************)
(* A model of sqm-autorate-rust: the Baseliner (src/src/baseliner.rs), the *)
(* RateController (src/src/ratecontroller.rs), the ReflectorSelector       *)
(* (src/src/reflector_selector.rs), the sender loop of the pingers         *)
(* (src/src/pinger_icmp.rs) and the start-up code of main                  *)
(* (src/src/main.rs), with the shared maps, the peer list and the          *)
(* reselection channel they communicate through.                           *)
(*                                                                         *)
(* Units.  f64 quantities are carried as scaled integers:                  *)
(*   time   one unit = 0.25 s, half of the default tick_interval           *)
(*   OWD    1/100 ms          (Ms(10) is 10 ms)                            *)
(*   rate   1/10 kbit/s       (Kbit(100) is 100 kbit/s)                    *)
(* EWMA factors are per mille.  Products are rounded to the nearest unit.  *)
(***************************************************************************)
EXTENDS Integers, Sequences, FiniteSets, TLC

VARIABLES
    now,            \* the monotonic clock, in time units
    clock_steps,    \* how often the clock has advanced (bounds the run)
    owd_baseline,   \* Mutex<HashMap<IpAddr, ReflectorStats>>: slow EWMAs
    owd_recent,     \* Mutex<HashMap<IpAddr, ReflectorStats>>: fast EWMAs
    triggers,       \* messages queued in the reselection channel
    bl_last,        \* the sample the Baseliner processed last, and the path taken
    marked,         \* reflectors whose latest sample was anomalous
    samples_seen,   \* samples the Baseliner has processed
    bl_state,       \* Baseliner::run: "running", "failed" (it returned an
                    \* Err) or "panicked"
    peers,          \* RwLock<Vec<IpAddr>>: the peer list
    rc_state,       \* Ratecontroller::run: "init", "running", "failed" (it
                    \* returned an Err) or "panicked"
    cur_dl_rate,    \* the locals of Ratecontroller::run
    cur_ul_rate,
    safe_dl_rates,
    safe_ul_rates,
    nrate_down,
    nrate_up,
    t_prev_bytes,
    lastchg_t,
    qdisc_dl,       \* the rate last written to the download qdisc
    qdisc_ul,       \* the rate last written to the upload qdisc
    rc_last,        \* what the last tick of the RateController did
    rc_ticks,       \* ticks the RateController has run
    reflector_pool, \* the reflectors read from the reflector list file
    sel_state,      \* ReflectorSelector::run: "off" (not spawned), "waiting",
                    \* "baselining" or "dead" (panicked with its guards held)
    next_peers,     \* the locals of ReflectorSelector::run
    reselection_count,
    selector_sleep_time,
    sel_last,       \* what the last cycle of the ReflectorSelector found
    send_idx,       \* the probes the PingSender has sent
    seq,            \* sender_loop: the u16 sequence counter
    sender_state,   \* sender_loop: "running" or "panicked"
    sender_last,    \* what the last iteration of sender_loop did
    measurement_type, \* Config::measurement_type
    listener_state, \* receive_loop: "running" or "panicked"
    listener_last,  \* what receive_loop did with the last packet
    reported,       \* the measurements receive_loop has reported
    joined,         \* main: the threads of its vector it has joined
    exit_status,    \* main: "none" while it runs, then "success" or "failure"
    pc,             \* where each thread stands between its lock operations
    mutex_owner,    \* the thread that holds owd_baseline / owd_recent
    rw_lock         \* the peer list's RwLock: its writer and its readers

clockVars == <<now, clock_steps>>
mapVars   == <<owd_baseline, owd_recent>>
blVars    == <<bl_state, bl_last, marked, samples_seen>>
rateVars  == <<cur_dl_rate, cur_ul_rate, safe_dl_rates, safe_ul_rates,
               nrate_down, nrate_up, t_prev_bytes, lastchg_t>>
rcVars    == <<rc_state, rateVars, qdisc_dl, qdisc_ul, rc_last, rc_ticks>>
selVars   == <<reflector_pool, sel_state, next_peers, reselection_count,
               selector_sleep_time, sel_last>>
loopVars  == <<seq, sender_state, sender_last>>
listenVars == <<measurement_type, listener_state, listener_last, reported>>
pingVars  == <<send_idx, loopVars, listenVars>>
mainVars  == <<joined, exit_status>>
lockVars  == <<pc, mutex_owner, rw_lock>>
vars      == <<clockVars, mapVars, triggers, blVars, peers, rcVars, selVars,
               pingVars, mainVars, lockVars>>

----------------------------------------------------------------------------
(* Bounds of the model *)

MaxClockSteps == 2
MaxRateClockSteps == 3
MaxSamples == 3
MaxRateSamples == 4
MaxGateSamples == 6
MaxGateClockSteps == 3
MaxTicks == 2
MaxRand == 1
MaxReplies == 3
MaxSends == 1
MaxCycles == 1
MaxPick == 2
PoolDraws == 1
MaxSelReplies == 5
MaxSelCycles == 1
MaxReported == 2
MaxMainSeq == 1
MaxLockCycles == 2
MaxTimeoutCycles == 41
MaxInitialDraw == 3
MaxDeltasSamples == 5

----------------------------------------------------------------------------
(* Units and configuration *)

Ms(x) == x * 100

\* time units per second
TicksPerSecond == 4

Kbit(x) == x * 10

\* Config::tick_interval = 0.5 s, in time units
tick_interval == 2

\* Config::min_change_interval = 0.5 s, in time units
min_change_interval == 2

\* Config: the rates of the link, in 1/10 kbit/s.  The minimum download
\* rate is 100.4 kbit/s: the keys are f64 and need not be whole numbers.
download_base_kbits == 10000
download_min_kbits == 1004
upload_base_kbits == 5000
upload_min_kbits == 500

\* Config::download_delay_ms = 15 ms (the default), upload_delay_ms = 8 ms
download_delay_ms == 1500
upload_delay_ms == 800

\* Config::high_load_level = 0.8, per mille
high_load_level == 800

\* Config::speed_hist_size
speed_hist_size == 2

\* Baseliner::start_time, the Instant the process started at
start_time == 0

\* ewma_factor(tick_interval, 135.0) = exp(ln 0.5 / 270) = 0.99744, per mille
slow_factor == 997

\* ewma_factor(tick_interval, 0.4) = exp(ln 0.5 / 0.8) = 0.42045, per mille
fast_factor == 420

----------------------------------------------------------------------------
(* Baseliner *)

ReflectorStats(down, up, t) ==
    [down_ewma |-> down, up_ewma |-> up, last_receive_time_s |-> t]

contains_key(map, r) == r \in DOMAIN map

InBothMaps(r) == contains_key(owd_baseline, r) /\ contains_key(owd_recent, r)

\* HashMap::entry(r).or_insert(new): the stored entry, or the new one
or_insert(map, r, new) == IF contains_key(map, r) THEN map[r] ELSE new

\* the map with the entry of r written back
Put(map, r, stats) ==
    [x \in DOMAIN map \cup {r} |-> IF x = r THEN stats ELSE map[x]]

\* Instant::duration_since saturates at zero
duration_since(t, earlier) == IF t > earlier THEN t - earlier ELSE 0

\* Ewma that weighs the sample with the factor of the old value
Ewma_Unweighted(old, x, factor) == (old * factor + factor * x + 500) \div 1000

\* old * factor + (1.0 - factor) * x
Ewma(old, x, factor) == (old * factor + (1000 - factor) * x + 500) \div 1000

\* IsStale with the two Instants of duration_since exchanged
IsStale_Reversed(t, baseline, recent) ==
    \/ duration_since(baseline.last_receive_time_s, t) > 30 * TicksPerSecond
    \/ duration_since(recent.last_receive_time_s, t) > 30 * TicksPerSecond

\* more than 30 s since the last sample of either map
IsStale(t, baseline, recent) ==
    \/ duration_since(t, baseline.last_receive_time_s) > 30 * TicksPerSecond
    \/ duration_since(t, recent.last_receive_time_s) > 30 * TicksPerSecond

\* IsAnomalous with && for ||
IsAnomalous_Both(up, down, baseline) ==
    /\ up > baseline.up_ewma + Ms(5000)
    /\ down > baseline.down_ewma + Ms(5000)

\* IsAnomalous with >= for >
IsAnomalous_Inclusive(up, down, baseline) ==
    \/ up >= baseline.up_ewma + Ms(5000)
    \/ down >= baseline.down_ewma + Ms(5000)

\* the reflection is more than 5 seconds higher than baseline
IsAnomalous(up, down, baseline) ==
    \/ up > baseline.up_ewma + Ms(5000)
    \/ down > baseline.down_ewma + Ms(5000)

\* MarkBad that leaves the receive time of the sample
MarkBad_Kept(stats) == stats

\* mark the data as bad: the receive time becomes the start time
MarkBad(stats) == [stats EXCEPT !.last_receive_time_s = start_time]

UpdateEwma(stats, up, down, factor) ==
    [stats EXCEPT !.down_ewma = Ewma(stats.down_ewma, down, factor),
                  !.up_ewma = Ewma(stats.up_ewma, up, factor)]

\* ClampBaseline with both comparisons left out
ClampBaseline_Skipped(baseline, recent) == baseline

\* the baseline is pulled down to the recent value, per direction
ClampBaseline(baseline, recent) ==
    [baseline EXCEPT
        !.down_ewma = IF baseline.down_ewma > recent.down_ewma
                      THEN recent.down_ewma ELSE baseline.down_ewma,
        !.up_ewma = IF baseline.up_ewma > recent.up_ewma
                    THEN recent.up_ewma ELSE baseline.up_ewma]

\* SendTrigger of a channel that drops the message
SendTrigger_Dropped(queue) == queue

\* Sender<bool>::send on the reselection channel, its result ignored
SendTrigger(queue) == queue + 1

\* the selector panicked with the write guard of the peer list and the
\* guard of owd_recent held: lock().unwrap() and read().unwrap() panic
Poisoned == sel_state = "dead"

\* One iteration of Baseliner::run for the sample (r, up, down, t).  Both
\* mutexes are held from the recv to the end of the iteration.
BaselinerRun(r, up, down, t) ==
    LET new       == ReflectorStats(down, up, t)
        first     == ~contains_key(owd_baseline, r)
        baseline0 == or_insert(owd_baseline, r, new)
        recent0   == or_insert(owd_recent, r, new)
        stale     == IsStale(t, baseline0, recent0)
        baseline1 == IF stale THEN new ELSE baseline0
        recent1   == IF stale THEN new ELSE recent0
        baseline2 == [baseline1 EXCEPT !.last_receive_time_s = t]
        recent2   == [recent1 EXCEPT !.last_receive_time_s = t]
        anomalous == IsAnomalous(up, down, baseline2)
        recent3   == UpdateEwma(recent2, up, down, fast_factor)
        slow      == UpdateEwma(baseline2, up, down, slow_factor)
        baseline3 == ClampBaseline(slow, recent3)
    IN  /\ bl_state = "running"
        /\ ~Poisoned
        /\ UNCHANGED bl_state
        /\ owd_baseline' = Put(owd_baseline, r,
                               IF anomalous THEN MarkBad(baseline2) ELSE baseline3)
        /\ owd_recent' = Put(owd_recent, r,
                             IF anomalous THEN MarkBad(recent2) ELSE recent3)
        /\ triggers' = IF anomalous THEN SendTrigger(triggers) ELSE triggers
        /\ bl_last' = [reflector |-> r, up_time |-> up, down_time |-> down,
                       last_receive_time_s |-> t, first |-> first,
                       stale |-> stale, anomalous |-> anomalous,
                       above_recent |-> ~anomalous /\
                            (\/ slow.down_ewma > recent3.down_ewma
                             \/ slow.up_ewma > recent3.up_ewma)]
        /\ marked' = IF anomalous THEN marked \cup {r} ELSE marked \ {r}
        /\ samples_seen' = samples_seen + 1

----------------------------------------------------------------------------
(* main: the shared state it creates *)

\* main's six default_reflectors, which both branches of the pool-size
\* match append to the empty peer list
default_reflectors == <<1, 2, 3, 4, 5, 6>>

\* main sleeps 0.5 s before it spawns the workers and 10 s before it spawns
\* the rate controller
RcStartTime == start_time + TicksPerSecond \div 2 + 10 * TicksPerSecond

----------------------------------------------------------------------------
(* RateController *)

Max(a, b) == IF a > b THEN a ELSE b
Min(a, b) == IF a < b THEN a ELSE b

\* a / b rounded to the nearest unit, for a >= 0 and b > 0
DivRound(a, b) == (2 * a + b) \div (2 * b)

\* f64::round and f64::floor, to whole kbit/s
Round(rate) == ((rate + 5) \div 10) * 10
Floor(rate) == (rate \div 10) * 10

a_else_b(a, b) == IF a > 0 THEN a ELSE b

\* IsFresh without the age of the data
IsFresh_AnyAge(r) ==
    contains_key(owd_baseline, r) /\ contains_key(owd_recent, r)

\* only consider this data if it's less than 2 * tick_duration seconds old
IsFresh(r) ==
    /\ contains_key(owd_baseline, r)
    /\ contains_key(owd_recent, r)
    /\ owd_recent[r].last_receive_time_s > now - 2 * tick_interval

\* the peers whose deltas the loop over the peer list pushes, in its order
FreshPeers == SelectSeq(peers, IsFresh)

down_deltas ==
    [i \in 1..Len(FreshPeers) |->
        owd_recent[FreshPeers[i]].down_ewma - owd_baseline[FreshPeers[i]].down_ewma]

up_deltas ==
    [i \in 1..Len(FreshPeers) |->
        owd_recent[FreshPeers[i]].up_ewma - owd_baseline[FreshPeers[i]].up_ewma]

\* NeedsReselection with the limit of the rate floor
NeedsReselection_Three(n_down, n_up) == n_down < 3 \/ n_up < 3

\* not enough delta values: trigger reselection
NeedsReselection(n_down, n_up) == n_down < 5 \/ n_up < 5

TooFewDeltas(n_down, n_up) == n_down < 3 \/ n_up < 3

\* deltas sorted ascending, then a_else_b(deltas[2], deltas[0])
DeltaStat(deltas) ==
    LET sorted == SortSeq(deltas, LAMBDA a, b : a < b)
    IN  a_else_b(sorted[3], sorted[1])

\* load > high_load_level, where load = utilisation / current rate
HighLoad(utilisation, cur_rate) == utilisation * 1000 > high_load_level * cur_rate

ProbeUpFires(delta_stat, delay_ms, utilisation, cur_rate) ==
    /\ delta_stat > 0
    /\ delta_stat < delay_ms
    /\ HighLoad(utilisation, cur_rate)

\* safe_rates[nrate] = (cur_rate * load).floor(), and cur_rate * load is the
\* utilisation
StoreSafeRate(safe_rates, nrate, utilisation) ==
    [safe_rates EXCEPT ![nrate + 1] = Floor(utilisation)]

MaxOf(safe_rates) ==
    CHOOSE m \in {safe_rates[i] : i \in DOMAIN safe_rates} :
        \A i \in DOMAIN safe_rates : safe_rates[i] <= m

\* cur_rate * (1.0 + 0.1 * (1.0 - cur_rate / max).max(0.0)) + base * 0.03
ProbeUpRate(cur_rate, max_rate, base_kbits) ==
    cur_rate
    + (IF max_rate > cur_rate
       THEN DivRound(cur_rate * (max_rate - cur_rate), 10 * max_rate)
       ELSE 0)
    + DivRound(3 * base_kbits, 100)

\* AdvanceNrate without the modulo
AdvanceNrate_NoWrap(nrate) == nrate + 1

\* nrate = nrate + 1; nrate = nrate % speed_hist_size
AdvanceNrate(nrate) == (nrate + 1) % speed_hist_size

BackOffFires(delta_stat, delay_ms) == delta_stat > delay_ms

\* BackOffRate that takes the safe rate whatever the utilisation
BackOffRate_SafeOnly(rnd_rate, utilisation) == rnd_rate

\* rnd_rate.min(0.9 * cur_rate * load)
BackOffRate(rnd_rate, utilisation) == Min(rnd_rate, DivRound(9 * utilisation, 10))

\* ClampRate without the rounding
ClampRate_NoRound(next_rate, min_kbits) == Max(next_rate, min_kbits)

\* next_rate.max(min_kbits).round()
ClampRate(next_rate, min_kbits) == Round(Max(next_rate, min_kbits))

\* (next_u64() as f64 * 0.2 + 0.75) * base_speed
InitialSpeed(rnd, base_speed) == ((rnd * 20 + 75) * base_speed) \div 100

\* generate_initial_speeds: one draw per entry
generate_initial_speeds(rnds, base_speed) ==
    [i \in 1..speed_hist_size |-> InitialSpeed(rnds[i], base_speed)]

\* RateChanged with == for !=
RateChanged_Inverted(next_rate, cur_rate) == next_rate = cur_rate

\* next_dl_rate != cur_dl_rate with the comparison left out
RateChanged_Always(next_rate, cur_rate) == TRUE

\* next_dl_rate != cur_dl_rate, after the clamp and the rounding
RateChanged(next_rate, cur_rate) == next_rate # cur_rate

\* the outcomes of the set_qdisc_rate calls of a pass: none fails, or the
\* call for the download or for the upload qdisc returns an error
QdiscFailures == {"none", "dl", "ul"}

NoTick == [empty |-> FALSE, included |-> <<>>, trigger |-> FALSE,
           stats_ok |-> TRUE, floored |-> FALSE,
           rx_util |-> 0, tx_util |-> 0,
           dl_probe |-> FALSE, ul_probe |-> FALSE,
           dl_backoff |-> FALSE, ul_backoff |-> FALSE,
           dl_proposed |-> 0, ul_proposed |-> 0,
           next_dl |-> 0, next_ul |-> 0,
           set_dl |-> FALSE, set_ul |-> FALSE, qdisc_error |-> "none"]

\* Ratecontroller::run up to its loop: the rates start at 60% of the base
\* rates and are written to the qdiscs, the safe rates are drawn.  rnds_dl
\* and rnds_ul are the draws of the random generator.
RateControllerStart(rnds_dl, rnds_ul) ==
    /\ rc_state = "init"
    /\ now >= RcStartTime
    /\ rc_state' = "running"
    /\ cur_dl_rate' = (download_base_kbits * 6) \div 10
    /\ cur_ul_rate' = (upload_base_kbits * 6) \div 10
    /\ qdisc_dl' = Round(cur_dl_rate')
    /\ qdisc_ul' = Round(cur_ul_rate')
    /\ safe_dl_rates' = generate_initial_speeds(rnds_dl, download_base_kbits)
    /\ safe_ul_rates' = generate_initial_speeds(rnds_ul, upload_base_kbits)
    /\ nrate_down' = 0
    /\ nrate_up' = 0
    /\ t_prev_bytes' = now
    /\ lastchg_t' = now
    /\ UNCHANGED <<rc_last, rc_ticks>>

\* the delta statistics of a pass: the count test and, with three or more
\* deltas, one statistic per direction
DeltaStats ==
    LET few == TooFewDeltas(Len(down_deltas), Len(up_deltas))
    IN  [trigger |-> NeedsReselection(Len(down_deltas), Len(up_deltas)),
         few     |-> few,
         down    |-> IF few THEN 0 ELSE DeltaStat(down_deltas),
         up      |-> IF few THEN 0 ELSE DeltaStat(up_deltas)]

\* The rate decision of one direction.  compute: both delta statistics are
\* positive; probe_ms and backoff_ms are the thresholds the probe-up and the
\* back-off test compare delta_stat with, base the base rate of the
\* probe-up increment, util the utilisation (cur_rate * load).
NextRate(few, compute, delta_stat, probe_ms, backoff_ms, base, min_kbits, util, cur_rate, safe_rates, nrate, pick) ==
    LET probe   == compute /\ ProbeUpFires(delta_stat, probe_ms,
                                           util, cur_rate)
        backoff == compute /\ BackOffFires(delta_stat, backoff_ms)
        safe    == IF probe THEN StoreSafeRate(safe_rates, nrate, util)
                   ELSE safe_rates
        next    == IF few THEN min_kbits
                   ELSE IF backoff THEN BackOffRate(safe[pick], util)
                   ELSE IF probe THEN ProbeUpRate(cur_rate, MaxOf(safe), base)
                   ELSE cur_rate
    IN  [probe |-> probe, backoff |-> backoff, safe_rates |-> safe,
         nrate |-> IF probe THEN AdvanceNrate(nrate) ELSE nrate,
         proposed |-> next,
         rate  |-> ClampRate(next, min_kbits)]

\* One pass of the loop of Ratecontroller::run that finds the time since
\* the last change above min_change_interval.  stats_ok: get_interface_stats
\* returns Ok; qdisc_fail: the set_qdisc_rate call that returns an error, if
\* it is made; rx_util, tx_util: the utilisation the byte counters yield
\* (8/1000 * bytes / seconds); pick_dl, pick_ul: the entries that
\* safe_rates.choose picks.  Both map mutexes and the read lock of the peer
\* list are held for the whole pass.  The upload probe-up is written with
\* download_delay_ms and download_base_kbits.  An error of set_qdisc_rate
\* returns from run before the current rates are assigned.
RateTick(stats_ok, qdisc_fail, rx_util, tx_util, pick_dl, pick_ul) ==
    /\ rc_state = "running"
    /\ now - lastchg_t > min_change_interval
    /\ ~Poisoned
    /\ rc_ticks' = rc_ticks + 1
    /\ IF Len(peers) = 0
       THEN /\ rc_last' = [NoTick EXCEPT !.empty = TRUE]
            /\ UNCHANGED <<rc_state, rateVars, qdisc_dl, qdisc_ul, triggers>>
       ELSE \E included \in {FreshPeers}, stat \in {DeltaStats} :
            /\ triggers' = IF stat.trigger THEN SendTrigger(triggers) ELSE triggers
            /\ IF ~stats_ok
               THEN \* get_interface_stats(..)? returns the error from run
                    /\ rc_state' = "failed"
                    /\ rc_last' = [NoTick EXCEPT !.included = included,
                                                 !.trigger = stat.trigger,
                                                 !.stats_ok = FALSE]
                    /\ UNCHANGED <<rateVars, qdisc_dl, qdisc_ul>>
               ELSE \E compute \in {~stat.few /\ stat.down > 0 /\ stat.up > 0} :
                    \E dl \in {NextRate(stat.few, compute, stat.down,
                                        download_delay_ms, download_delay_ms,
                                        download_base_kbits, download_min_kbits,
                                        rx_util, cur_dl_rate, safe_dl_rates,
                                        nrate_down, pick_dl)},
                       ul \in {NextRate(stat.few, compute, stat.up,
                                        download_delay_ms, upload_delay_ms,
                                        download_base_kbits, upload_min_kbits,
                                        tx_util, cur_ul_rate, safe_ul_rates,
                                        nrate_up, pick_ul)} :
                    \E set_dl \in {RateChanged(dl.rate, cur_dl_rate)} :
                    \E dl_failed \in {set_dl /\ qdisc_fail = "dl"} :
                    \E set_ul \in {~dl_failed /\ RateChanged(ul.rate, cur_ul_rate)} :
                    \E failed \in {dl_failed \/ (set_ul /\ qdisc_fail = "ul")} :
                    /\ safe_dl_rates' = dl.safe_rates
                    /\ safe_ul_rates' = ul.safe_rates
                    /\ nrate_down' = dl.nrate
                    /\ nrate_up' = ul.nrate
                    /\ t_prev_bytes' = now
                    /\ qdisc_dl' = IF set_dl /\ ~dl_failed THEN dl.rate
                                   ELSE qdisc_dl
                    /\ qdisc_ul' = IF set_ul /\ ~failed THEN ul.rate
                                   ELSE qdisc_ul
                    /\ cur_dl_rate' = IF failed THEN cur_dl_rate ELSE dl.rate
                    /\ cur_ul_rate' = IF failed THEN cur_ul_rate ELSE ul.rate
                    /\ lastchg_t' = IF failed THEN lastchg_t ELSE now
                    /\ rc_last' = [empty |-> FALSE, included |-> included,
                                   trigger |-> stat.trigger, stats_ok |-> TRUE,
                                   floored |-> stat.few,
                                   rx_util |-> rx_util, tx_util |-> tx_util,
                                   dl_probe |-> dl.probe, ul_probe |-> ul.probe,
                                   dl_backoff |-> dl.backoff,
                                   ul_backoff |-> ul.backoff,
                                   dl_proposed |-> dl.proposed,
                                   ul_proposed |-> ul.proposed,
                                   next_dl |-> dl.rate, next_ul |-> ul.rate,
                                   set_dl |-> set_dl, set_ul |-> set_ul,
                                   qdisc_error |-> IF failed THEN qdisc_fail
                                                   ELSE "none"]
                    /\ rc_state' = IF failed THEN "failed" ELSE rc_state

----------------------------------------------------------------------------
(* ReflectorSelector *)

\* Config::num_reflectors (default 5)
num_reflectors == 2

\* main spawns the selector only for a pool of more than five
SelectorSpawned_Always(pool) == TRUE

\* reflector_pool_size > 5
SelectorSpawned(pool) == Len(pool) > 5

\* the cycle before the first one
NoCycle == [triggered |-> FALSE, completed |-> FALSE, candidates |-> 0, kept |-> 0]

\* (owd_recent[&peer].down_ewma + owd_recent[&peer].up_ewma) as u64
Rtt(recent, peer) == (recent[peer].down_ewma + recent[peer].up_ewma) \div Ms(1)

\* the <<peer, rtt>> of every entry of next_peers that owd_recent knows
Candidates(next, recent) ==
    LET present == SelectSeq(next, LAMBDA peer : contains_key(recent, peer))
    IN  [i \in 1..Len(present) |-> <<present[i], Rtt(recent, present[i])>>]

\* c goes behind the candidates that compare less or equal
InsertByRtt(sorted, c) ==
    LET k == Cardinality({i \in 1..Len(sorted) : sorted[i][2] <= c[2]})
    IN  SubSeq(sorted, 1, k) \o <<c>> \o SubSeq(sorted, k + 1, Len(sorted))

\* sort_by that leaves the candidates in the order of next_peers
sort_by_Unsorted(candidates) == candidates

\* candidates.sort_by(|a, b| a.1.cmp(&b.1)), a stable sort
RECURSIVE sort_by(_)
sort_by(candidates) ==
    IF candidates = <<>> THEN <<>>
    ELSE InsertByRtt(sort_by(SubSeq(candidates, 1, Len(candidates) - 1)),
                     candidates[Len(candidates)])

candidate_pool_num == 2 * num_reflectors

\* SliceInRange of a slice that takes what there is
SliceInRange_Lenient(candidates) == TRUE

\* the range 0..candidate_pool_num - 1 lies within the candidates
SliceInRange(candidates) ==
    candidate_pool_num >= 1 /\ candidate_pool_num - 1 <= Len(candidates)

\* candidates[0..candidate_pool_num - 1], a range SliceInRange has checked
Truncate(candidates) ==
    SubSeq(candidates, 1, Min(candidate_pool_num - 1, Len(candidates)))

Swap(list, i, j) == [list EXCEPT ![i] = list[j], ![j] = list[i]]

\* for i in (1..len).rev() { j = random_range(0..(i + 1)); swap(i, j) },
\* js[i] the value drawn for i
RECURSIVE Shuffle(_, _, _)
Shuffle(list, js, i) ==
    IF i < 1 THEN list ELSE Shuffle(Swap(list, i + 1, js[i] + 1), js, i - 1)

FisherYates(list, js) == Shuffle(list, js, Len(list) - 1)

\* the values random_range can draw while shuffling len candidates
ShuffleDraws(len) ==
    {js \in [1..(len - 1) -> 0..(len - 1)] : \A i \in 1..(len - 1) : js[i] <= i}

\* NewPeers that takes every candidate left
NewPeers_All(candidates) == [i \in 1..Len(candidates) |-> candidates[i][1]]

\* the first min(num_reflectors, len) candidates
NewPeers(candidates) ==
    [i \in 1..Min(num_reflectors, Len(candidates)) |-> candidates[i][1]]

\* The first half of a cycle: the recv_timeout returns, with a trigger
\* (triggered) or after the timeout on an empty channel, and the peer list
\* becomes the current peers and the pool entries drawn.
SelectorBegin(triggered, draws) ==
    /\ sel_state = "waiting"
    /\ IF triggered THEN triggers > 0 /\ triggers' = triggers - 1
       ELSE triggers = 0 /\ UNCHANGED triggers
    /\ reselection_count' = reselection_count + 1
    /\ selector_sleep_time' = IF reselection_count' > 40
                              THEN 15 * 60 * TicksPerSecond
                              ELSE selector_sleep_time
    /\ next_peers' = peers \o draws
    /\ peers' = next_peers'
    /\ sel_state' = "baselining"
    /\ sel_last' = [sel_last EXCEPT !.triggered = triggered]
    /\ UNCHANGED reflector_pool

\* The second half of a cycle, after the sleep: with the write lock and
\* the owd_recent mutex held, the candidates are sorted, sliced, shuffled
\* with the draws js, and the first of them become the peer list.  A slice
\* out of range panics with both guards held.
SelectorFinish(js) ==
    /\ sel_state = "baselining"
    /\ \E candidates \in {sort_by(Candidates(next_peers, owd_recent))} :
          /\ sel_last' = [triggered |-> sel_last.triggered,
                          completed |-> SliceInRange(candidates),
                          candidates |-> Len(candidates),
                          kept |-> IF SliceInRange(candidates)
                                   THEN Len(Truncate(candidates)) ELSE 0]
          /\ IF SliceInRange(candidates)
             THEN /\ peers' = NewPeers(FisherYates(Truncate(candidates), js))
                  /\ sel_state' = "waiting"
             ELSE /\ sel_state' = "dead"
                  /\ UNCHANGED peers
    /\ next_peers' = <<>>
    /\ UNCHANGED <<reflector_pool, reselection_count, selector_sleep_time>>

\* the Baseliner finds owd_recent poisoned
BaselinerPoisoned ==
    /\ bl_state = "running"
    /\ Poisoned
    /\ bl_state' = "panicked"
    /\ UNCHANGED <<bl_last, marked, samples_seen>>

\* the RateController finds owd_recent poisoned
RatePoisoned ==
    /\ rc_state = "running"
    /\ now - lastchg_t > min_change_interval
    /\ Poisoned
    /\ rc_state' = "panicked"
    /\ UNCHANGED <<rateVars, qdisc_dl, qdisc_ul, rc_last, rc_ticks>>

----------------------------------------------------------------------------
(* PingSender and PingListener *)

Range(list) == {list[i] : i \in DOMAIN list}

\* the sender reads the peer list and probes the next peer in turn
PingSend ==
    /\ ~Poisoned
    /\ Len(peers) > 0
    /\ send_idx' = send_idx + 1

\* the listener drops a reply whose source is not in the peer list
ListenerAccepts(r) == ~Poisoned /\ r \in Range(peers)

\* MeasurementType: the two types main builds a pinger for
Icmp == "Icmp"
IcmpTimestamps == "IcmpTimestamps"
MeasurementTypes == {Icmp, IcmpTimestamps}

\* the ICMP types EchoReply, EchoRequest and TimestampReply
EchoReply == 0
EchoRequest == 8
TimestampReply == 14

\* the identifier main derives from the process id (id & 0xFFFF)
id == 4242

\* the packet before the first one
NoPacket == [source |-> 0, icmp_type |-> 0, identifier |-> 0,
             form |-> "none", accepted |-> FALSE]

\* the reply type receive_loop compares get_icmp_type with
ReplyType(mt) == IF mt = Icmp THEN EchoReply ELSE TimestampReply

\* The forms of a packet of the reply type: shorter than the reply header
\* ("no_header"), with the header and less than the payload the loop reads
\* ("no_payload"), or complete ("well_formed"); "recv_error": iter.next()
\* returns an Err instead of a packet.
PacketForms == {"recv_error", "no_header", "no_payload", "well_formed"}

\* The unwrap that panics on a packet of the reply type.  Echo:
\* EchoReplyPacket::new(..).unwrap() before the identifier is compared,
\* payload().read_u64().unwrap() after it.  Timestamps:
\* deserialize(packet.packet()).unwrap() of the whole message before the
\* identifier is compared.
UnwrapPanics(mt, identifier, form) ==
    IF mt = Icmp
    THEN form = "no_header" \/ (form = "no_payload" /\ identifier = id)
    ELSE form \in {"no_header", "no_payload"}

\* One iteration of receive_loop for a packet from source: an Err of
\* iter.next() and a packet of another ICMP type are skipped, a packet the
\* loop cannot decode panics in unwrap, a packet with another identifier is
\* skipped, and the measurement of every other packet is reported.  The
\* source address is only printed.
receive_loop(source, icmp_type, identifier, form) ==
    /\ listener_state = "running"
    /\ \E of_type \in {form # "recv_error" /\ icmp_type = ReplyType(measurement_type)} :
       \E panics \in {of_type /\ UnwrapPanics(measurement_type, identifier, form)} :
       \E accepted \in {of_type /\ ~panics /\ identifier = id} :
        /\ listener_state' = IF panics THEN "panicked" ELSE listener_state
        /\ reported' = IF accepted THEN reported + 1 ELSE reported
        /\ listener_last' = [source |-> source, icmp_type |-> icmp_type,
                             identifier |-> identifier, form |-> form,
                             accepted |-> accepted]
    /\ UNCHANGED measurement_type

\* u16::MAX
U16Max == 65535

\* the iteration before the first one
NoIteration == [seq |-> 0, probes |-> 0, send_ok |-> TRUE, wrapped |-> FALSE]

\* One iteration of sender_loop: a probe with the sequence number seq to
\* every reflector in turn, the sleep, and seq += 1.  failing: the position
\* in the list of the reflector whose send_ping fails, 0 if every send
\* succeeds; send_to(..).expect and send_ping(..).expect panic on the
\* failure, so the reflectors after it are not probed.  overflow_checks: the
\* build checks integer overflow (the default of a debug build), so that
\* 65535 + 1 panics; it wraps to 0 without the checks.  The test
\* seq > u16::MAX that follows is never true.
sender_loop(failing, overflow_checks) ==
    /\ sender_state = "running"
    /\ failing \in 0..Len(peers)
    /\ \E send_ok \in {failing = 0} :
        /\ sender_last' = [seq |-> seq,
                           probes |-> IF send_ok THEN Len(peers) ELSE failing - 1,
                           send_ok |-> send_ok,
                           wrapped |-> sender_last.wrapped \/
                                       (send_ok /\ seq = U16Max /\ ~overflow_checks)]
        /\ IF ~send_ok \/ (seq = U16Max /\ overflow_checks)
           THEN sender_state' = "panicked" /\ UNCHANGED seq
           ELSE seq' = (seq + 1) % (U16Max + 1) /\ UNCHANGED sender_state

----------------------------------------------------------------------------
(* main: the join loop *)

\* the Baseliner's recv()? returns the Err of a channel whose sender, moved
\* into the receiver thread, was dropped when that thread ended
BaselinerDisconnected ==
    /\ bl_state = "running"
    /\ listener_state = "panicked"
    /\ bl_state' = "failed"
    /\ UNCHANGED <<bl_last, marked, samples_seen>>

\* main's vector of join handles, in the order it pushes them
threads ==
    <<"receiver", "sender", "baseliner">>
        \o (IF sel_state = "off" THEN <<>> ELSE <<"reselection">>)
        \o <<"ratecontroller">>

\* how a thread stands: it runs, it returned from its closure (run's Result
\* is the closure's value) or it panicked
Outcome(thread) ==
    CASE thread = "receiver" ->
            IF listener_state = "panicked" THEN "panicked" ELSE "running"
      [] thread = "sender" ->
            IF sender_state = "panicked" THEN "panicked" ELSE "running"
      [] thread = "baseliner" ->
            IF bl_state = "panicked" THEN "panicked"
            ELSE IF bl_state = "failed" THEN "returned" ELSE "running"
      [] thread = "reselection" ->
            IF sel_state = "dead" THEN "panicked" ELSE "running"
      [] thread = "ratecontroller" ->
            IF rc_state = "panicked" THEN "panicked"
            ELSE IF rc_state = "failed" THEN "returned" ELSE "running"

\* thread.join().unwrap(): join gives an Err only for a thread that
\* panicked; the value a thread returned, an Err of run included, is dropped
JoinPanics(outcome) == outcome = "panicked"

\* One pass of main's loop over the handles, which starts once the rate
\* controller is spawned: join blocks until the thread has ended.  The
\* unwrap of a panicked thread's join panics in main and the process ends
\* with a failure status; after the last join main returns
\* ExitCode::SUCCESS.
MainJoin ==
    /\ exit_status = "none"
    /\ now >= RcStartTime
    /\ joined < Len(threads)
    /\ \E outcome \in {Outcome(threads[joined + 1])} :
        /\ outcome # "running"
        /\ IF JoinPanics(outcome)
           THEN exit_status' = "failure" /\ UNCHANGED joined
           ELSE /\ joined' = joined + 1
                /\ exit_status' = IF joined' = Len(threads) THEN "success"
                                  ELSE exit_status

----------------------------------------------------------------------------
(* The locks: the order in which the threads take and drop the two map *)
(* mutexes and the RwLock of the peer list                              *)

\* the threads that lock the maps
Threads == {"baseliner", "ratecontroller", "reselection"}

Mutexes == {"owd_baseline", "owd_recent"}

\* where a thread stands before it takes its first lock: the Baseliner in
\* recv, the RateController in its sleep, the selector in recv_timeout
FirstLabel(t) ==
    CASE t = "baseliner" -> "recv"
      [] t = "ratecontroller" -> "sleep"
      [] t = "reselection" -> "wait"

\* LockMutex that does not wait for the owner
LockMutex_NoWait(t, m, from, to) ==
    /\ pc[t] = from
    /\ mutex_owner' = [mutex_owner EXCEPT ![m] = t]
    /\ pc' = [pc EXCEPT ![t] = to]
    /\ UNCHANGED rw_lock

\* Mutex::lock returns once the mutex is free
LockMutex(t, m, from, to) ==
    /\ pc[t] = from
    /\ mutex_owner[m] = "none"
    /\ mutex_owner' = [mutex_owner EXCEPT ![m] = t]
    /\ pc' = [pc EXCEPT ![t] = to]
    /\ UNCHANGED rw_lock

\* RwLock::write returns once there is neither a writer nor a reader
WritePeers(t, from, to) ==
    /\ pc[t] = from
    /\ rw_lock.writer = "none"
    /\ rw_lock.readers = {}
    /\ rw_lock' = [rw_lock EXCEPT !.writer = t]
    /\ pc' = [pc EXCEPT ![t] = to]
    /\ UNCHANGED mutex_owner

\* RwLock::read returns once there is no writer
ReadPeers(t, from, to) ==
    /\ pc[t] = from
    /\ rw_lock.writer = "none"
    /\ rw_lock' = [rw_lock EXCEPT !.readers = @ \cup {t}]
    /\ pc' = [pc EXCEPT ![t] = to]
    /\ UNCHANGED mutex_owner

\* a step of a thread that takes and drops no lock
Proceed(t, from, to) ==
    /\ pc[t] = from
    /\ pc' = [pc EXCEPT ![t] = to]
    /\ UNCHANGED <<mutex_owner, rw_lock>>

\* DropGuards that leaves the locks with the thread
DropGuards_Kept(t, from, to) == Proceed(t, from, to)

\* the end of the scope of a thread's guards: every lock it holds is dropped
DropGuards(t, from, to) ==
    /\ pc[t] = from
    /\ mutex_owner' = [m \in Mutexes |->
                          IF mutex_owner[m] = t THEN "none" ELSE mutex_owner[m]]
    /\ rw_lock' = [writer |-> IF rw_lock.writer = t THEN "none" ELSE rw_lock.writer,
                    readers |-> rw_lock.readers \ {t}]
    /\ pc' = [pc EXCEPT ![t] = to]

\* A panic, or a lock().unwrap(), read().unwrap() or write().unwrap() that
\* finds the lock poisoned: the guards the thread holds are dropped while it
\* unwinds, which poisons their locks.  A poisoned lock has the owner
\* "poisoned".
Panic(t, from) ==
    /\ pc[t] = from
    /\ mutex_owner' = [m \in Mutexes |->
                          IF mutex_owner[m] = t THEN "poisoned" ELSE mutex_owner[m]]
    /\ rw_lock' = [writer |-> IF rw_lock.writer = t THEN "poisoned" ELSE rw_lock.writer,
                    readers |-> rw_lock.readers \ {t}]
    /\ pc' = [pc EXCEPT ![t] = "panicked"]

LockPoisoned(t, m, from) == mutex_owner[m] = "poisoned" /\ Panic(t, from)

PeersPoisoned(t, from) == rw_lock.writer = "poisoned" /\ Panic(t, from)

\* Baseliner::run: both mutexes are locked after the recv and their guards
\* live to the end of the iteration
BaselinerLocks ==
    \/ LockMutex("baseliner", "owd_baseline", "recv", "has_baseline")
    \/ LockPoisoned("baseliner", "owd_baseline", "recv")
    \/ LockMutex("baseliner", "owd_recent", "has_baseline", "update")
    \/ LockPoisoned("baseliner", "owd_recent", "has_baseline")
    \/ DropGuards("baseliner", "update", "recv")

\* The pass of Ratecontroller::run: owd_baseline, owd_recent and the read
\* lock are taken on entry; the deltas loop, get_interface_stats, the
\* set_qdisc_rate calls and the write to the statistics file follow inside
\* the block, at whose end the three guards are dropped.  The calls of
\* set_qdisc_rate and the write are conditional; an Err of
\* get_interface_stats or set_qdisc_rate returns from run.
RatecontrollerLocks ==
    \/ LockMutex("ratecontroller", "owd_baseline", "sleep", "has_baseline")
    \/ LockPoisoned("ratecontroller", "owd_baseline", "sleep")
    \/ LockMutex("ratecontroller", "owd_recent", "has_baseline", "has_recent")
    \/ LockPoisoned("ratecontroller", "owd_recent", "has_baseline")
    \/ ReadPeers("ratecontroller", "has_recent", "deltas")
    \/ PeersPoisoned("ratecontroller", "has_recent")
    \/ \E from \in {"stats_io", "qdisc_io"} :
            DropGuards("ratecontroller", from, "returned")
    \/ Proceed("ratecontroller", "deltas", "stats_io")
    \/ \E to \in {"qdisc_io", "stats_file"} : Proceed("ratecontroller", "stats_io", to)
    \/ Proceed("ratecontroller", "qdisc_io", "stats_file")
    \/ \E from \in {"stats_io", "qdisc_io", "stats_file"} :
            DropGuards("ratecontroller", from, "sleep")

\* ReflectorSelector::run: the write lock is taken and dropped around the
\* extension of the peer list, and taken again after the sleep; owd_recent
\* is locked under it, and both guards live to the end of the iteration; the slice of the candidates can panic under them
ReflectorSelectorLocks ==
    \/ WritePeers("reselection", "wait", "extend")
    \/ DropGuards("reselection", "extend", "baseline_sleep")
    \/ WritePeers("reselection", "baseline_sleep", "has_peers")
    \/ LockMutex("reselection", "owd_recent", "has_peers", "select")
    \/ LockPoisoned("reselection", "owd_recent", "has_peers")
    \/ Panic("reselection", "select")
    \/ DropGuards("reselection", "select", "wait")

----------------------------------------------------------------------------
(* The clock *)

\* one tick, and an outage longer than the 30 s staleness limit
OutageJumps == {1, 30 * TicksPerSecond + 1}

Advance(d) ==
    /\ clock_steps < MaxClockSteps
    /\ now' = now + d
    /\ clock_steps' = clock_steps + 1

----------------------------------------------------------------------------
(* Initial state: the shared state as main creates it *)

NoSample == [reflector |-> 0, up_time |-> 0, down_time |-> 0,
             last_receive_time_s |-> 0, first |-> FALSE, stale |-> FALSE,
             anomalous |-> FALSE, above_recent |-> FALSE]

InitWith(pool) ==
    /\ now = start_time
    /\ clock_steps = 0
    /\ owd_baseline = <<>>
    /\ owd_recent = <<>>
    /\ triggers = 0
    /\ bl_last = NoSample
    /\ marked = {}
    /\ samples_seen = 0
    /\ bl_state = "running"
    /\ peers = default_reflectors
    /\ rc_state = "init"
    /\ cur_dl_rate = 0
    /\ cur_ul_rate = 0
    /\ safe_dl_rates = <<>>
    /\ safe_ul_rates = <<>>
    /\ nrate_down = 0
    /\ nrate_up = 0
    /\ t_prev_bytes = 0
    /\ lastchg_t = 0
    /\ qdisc_dl = Kbit(5000)
    /\ qdisc_ul = Kbit(1000)
    /\ rc_last = NoTick
    /\ rc_ticks = 0
    /\ reflector_pool = pool
    /\ sel_state = IF SelectorSpawned(pool) THEN "waiting" ELSE "off"
    /\ next_peers = <<>>
    /\ reselection_count = 0
    /\ selector_sleep_time = 30 * TicksPerSecond
    /\ sel_last = NoCycle
    /\ send_idx = 0
    /\ seq = 0
    /\ sender_state = "running"
    /\ sender_last = NoIteration
    /\ listener_state = "running"
    /\ listener_last = NoPacket
    /\ reported = 0
    /\ joined = 0
    /\ exit_status = "none"
    /\ pc = [t \in Threads |-> FirstLabel(t)]
    /\ mutex_owner = [m \in Mutexes |-> "none"]
    /\ rw_lock = [writer |-> "none", readers |-> {}]

\* a reflector list of five entries or fewer: no selector is spawned
SmallPool == <<1, 2, 3>>

Init == InitWith(SmallPool) /\ measurement_type = IcmpTimestamps

----------------------------------------------------------------------------
(* The Baseliner alone, fed every sample of a small alphabet *)

BlReflectors == {1, 2}

\* <<up_time, down_time>> of a sample: an idle link, some delay, a reply
\* exactly 5 s and more than 5 s above the idle one
BlSamples == {<<Ms(10), Ms(10)>>, <<Ms(10), Ms(30)>>, <<Ms(10), Ms(5010)>>,
              <<Ms(10), Ms(6000)>>, <<Ms(6000), Ms(10)>>}

BaselinerStep ==
    /\ samples_seen < MaxSamples
    /\ \E r \in BlReflectors, s \in BlSamples : BaselinerRun(r, s[1], s[2], now)
    /\ UNCHANGED <<clockVars, peers, rcVars, selVars, pingVars, mainVars, lockVars>>

BaselinerClock ==
    /\ \E d \in OutageJumps : Advance(d)
    /\ UNCHANGED <<mapVars, triggers, blVars, peers, rcVars, selVars, pingVars, mainVars, lockVars>>

NextBaseliner == BaselinerStep \/ BaselinerClock

SpecBaseliner == Init /\ [][NextBaseliner]_vars

----------------------------------------------------------------------------
(* The sender loop alone, through every value of its sequence counter *)

\* every send succeeds, or the send to the first or to the last reflector
\* of the list fails
SenderFailures == {0, 1, Len(default_reflectors)}

SenderLoopStep ==
    /\ \E failing \in SenderFailures, overflow_checks \in BOOLEAN :
            sender_loop(failing, overflow_checks)
    /\ UNCHANGED <<clockVars, mapVars, triggers, blVars, peers, rcVars, selVars,
                   send_idx, listenVars, mainVars, lockVars>>

NextSender == SenderLoopStep

SpecSender == Init /\ [][NextSender]_vars

----------------------------------------------------------------------------
(* The receive loop alone, for both measurement types *)

\* a peer and an address that is not in the peer list
PacketSources == {1, 7}

PacketTypes == {EchoReply, EchoRequest, TimestampReply}

\* the listener's identifier and another process's
PacketIds == {id, id + 1}

ListenerInit == InitWith(SmallPool) /\ measurement_type \in MeasurementTypes

ReceiveStep ==
    /\ reported < MaxReported
    /\ \E source \in PacketSources, icmp_type \in PacketTypes,
          identifier \in PacketIds, form \in PacketForms :
            receive_loop(source, icmp_type, identifier, form)
    /\ UNCHANGED <<clockVars, mapVars, triggers, blVars, peers, rcVars, selVars,
                   send_idx, loopVars, mainVars, lockVars>>

NextListener == ReceiveStep

SpecListener == ListenerInit /\ [][NextListener]_vars

----------------------------------------------------------------------------
(* The RateController with a Baseliner that feeds it three reflectors *)

\* main's sleeps before it spawns the rate controller, then the shortest
\* wait that lets the next pass change the rates
RateJump == IF now < RcStartTime THEN RcStartTime - now
            ELSE min_change_interval + 1

\* <<up_time, down_time>>: an idle link, some and much queueing delay, and
\* much queueing delay on the download path only
Idle == <<Ms(10), Ms(10)>>
Mild == <<Ms(20), Ms(30)>>
Heavy == <<Ms(30), Ms(50)>>
DownOnly == <<Ms(10), Ms(50)>>

\* the sample that, after an idle one, leaves the download delta of its
\* reflector at download_delay_ms exactly
AtThreshold == <<Ms(20), Ms(36)>>

\* three reflectors answer in turn
RateReflector == (samples_seen % 3) + 1

\* the link is idle when every reflector answers for the first time; then
\* the path to the first reflector sees the delay
RateSamples ==
    IF RateReflector = 1 /\ samples_seen > 0
    THEN {Idle, Mild, Heavy, DownOnly, AtThreshold} ELSE {Idle}

\* <<rx, tx>>: the utilisation the byte counters yield, light or heavy
Utilisations == {<<Kbit(100), Kbit(100)>>, <<Kbit(900), Kbit(100)>>,
                 <<Kbit(900), Kbit(900)>>}

\* the values next_u64 returns, one per entry of a ring: the entries differ
Draws == {[i \in 1..speed_hist_size |-> (i + k) % (MaxRand + 1)] : k \in 0..MaxRand}

RateClock ==
    /\ clock_steps < MaxRateClockSteps
    /\ now' = now + RateJump
    /\ clock_steps' = clock_steps + 1
    /\ UNCHANGED <<mapVars, triggers, blVars, peers, rcVars, selVars, pingVars, mainVars, lockVars>>

RateBaselinerStep ==
    /\ samples_seen < MaxRateSamples
    /\ now > RcStartTime
    /\ \E s \in RateSamples : BaselinerRun(RateReflector, s[1], s[2], now)
    /\ UNCHANGED <<clockVars, peers, rcVars, selVars, pingVars, mainVars, lockVars>>

\* the controller starts right after main's sleeps
RateStart ==
    /\ now = RcStartTime
    /\ \E rnds \in Draws : RateControllerStart(rnds, rnds)
    /\ UNCHANGED <<clockVars, mapVars, triggers, blVars, peers, selVars, pingVars, mainVars, lockVars>>

RateTickStep ==
    /\ rc_ticks < MaxTicks
    /\ \E stats_ok \in BOOLEAN, qdisc_fail \in QdiscFailures :
       \E util \in Utilisations, pick \in 1..speed_hist_size :
            RateTick(stats_ok, qdisc_fail, util[1], util[2], pick, pick)
    /\ UNCHANGED <<clockVars, mapVars, blVars, peers, selVars, pingVars, mainVars, lockVars>>

NextRateSpec == RateClock \/ RateBaselinerStep \/ RateStart \/ RateTickStep

SpecRate == Init /\ [][NextRateSpec]_vars

----------------------------------------------------------------------------
(* The freshness gate: the RateController with five answering reflectors *)

\* the reflectors that answer; the sixth default reflector stays silent
GateReflectors == 1..(Len(default_reflectors) - 1)

Unseen == {r \in GateReflectors : ~InBothMaps(r)}

\* the reflectors answer in turn, then any of them answers again
GateNext ==
    IF Unseen = {} THEN GateReflectors
    ELSE {r \in Unseen : \A q \in Unseen : r <= q}

\* <<up_time, down_time>>: an idle link, and later a reply more than 5 s late
Late == <<Ms(10), Ms(6000)>>
GateSamples == IF Unseen = {} THEN {Idle, Late} ELSE {Idle}

\* main's sleeps, then the wait between two passes, or one that outlasts
\* the freshness window
GateJumps == IF now < RcStartTime THEN {RcStartTime - now}
             ELSE {min_change_interval + 1, 2 * tick_interval + 1}

GateClock ==
    /\ clock_steps < MaxGateClockSteps
    /\ \E d \in GateJumps : now' = now + d
    /\ clock_steps' = clock_steps + 1
    /\ UNCHANGED <<mapVars, triggers, blVars, peers, rcVars, selVars, pingVars, mainVars, lockVars>>

GateBaselinerStep ==
    /\ samples_seen < MaxGateSamples
    /\ now > RcStartTime
    /\ \E r \in GateNext, s \in GateSamples : BaselinerRun(r, s[1], s[2], now)
    /\ UNCHANGED <<clockVars, peers, rcVars, selVars, pingVars, mainVars, lockVars>>

GateStart ==
    /\ now = RcStartTime
    /\ RateControllerStart([i \in 1..speed_hist_size |-> 0],
                           [i \in 1..speed_hist_size |-> 0])
    /\ UNCHANGED <<clockVars, mapVars, triggers, blVars, peers, selVars, pingVars, mainVars, lockVars>>

GateTickStep ==
    /\ rc_ticks < MaxTicks
    /\ \E stats_ok \in BOOLEAN : RateTick(stats_ok, "none", Kbit(100), Kbit(100), 1, 1)
    /\ UNCHANGED <<clockVars, mapVars, blVars, peers, selVars, pingVars, mainVars, lockVars>>

NextGate == GateClock \/ GateBaselinerStep \/ GateStart \/ GateTickStep

SpecGate == Init /\ [][NextGate]_vars

----------------------------------------------------------------------------
(* The whole program: pingers, Baseliner, RateController, ReflectorSelector *)

\* a reflector list of more than five entries: the selector is spawned
LargePool == <<1, 7, 8, 9, 10, 11>>

Pools == {SmallPool, LargePool}

\* the reflectors whose replies arrive
Responders == {1, 2, 7}

\* <<up_time, down_time>> of the replies of r
SampleOf(r) == <<Ms(5 * ((r % 3) + 1)), Ms(5 * ((r % 3) + 1))>>

\* the pool entries choose returns, PoolDraws of them for the 19 of a cycle
PoolPicks == [1..PoolDraws -> {reflector_pool[i] : i \in 1..MaxPick}]

SpecInit == measurement_type = IcmpTimestamps /\ \E pool \in Pools : InitWith(pool)

\* the run is followed to the first pass of the controller
Horizon == RcStartTime + min_change_interval + 1

Clock ==
    /\ now < Horizon
    /\ now' = now + RateJump
    /\ clock_steps' = clock_steps + 1
    /\ UNCHANGED <<mapVars, triggers, blVars, peers, rcVars, selVars, pingVars, mainVars, lockVars>>

SenderStep ==
    /\ send_idx < MaxSends
    /\ PingSend
    /\ UNCHANGED <<clockVars, mapVars, triggers, blVars, peers, rcVars, selVars,
                   loopVars, listenVars, mainVars, lockVars>>

\* a reply the listener accepts reaches the Baseliner
ReplyStep ==
    /\ samples_seen < MaxReplies
    /\ \E r \in Responders :
          /\ ListenerAccepts(r)
          /\ BaselinerRun(r, SampleOf(r)[1], SampleOf(r)[2], now)
    /\ UNCHANGED <<clockVars, peers, rcVars, selVars, pingVars, mainVars, lockVars>>

BaselinerFails ==
    /\ BaselinerPoisoned
    /\ UNCHANGED <<clockVars, mapVars, triggers, peers, rcVars, selVars, pingVars, mainVars, lockVars>>

RcStart ==
    /\ now = RcStartTime
    /\ RateControllerStart([i \in 1..speed_hist_size |-> 0],
                           [i \in 1..speed_hist_size |-> 0])
    /\ UNCHANGED <<clockVars, mapVars, triggers, blVars, peers, selVars, pingVars, mainVars, lockVars>>

RcTick ==
    /\ rc_ticks < MaxTicks
    /\ RateTick(TRUE, "none", Kbit(100), Kbit(100), 1, 1)
    /\ UNCHANGED <<clockVars, mapVars, blVars, peers, selVars, pingVars, mainVars, lockVars>>

RcFails ==
    /\ RatePoisoned
    /\ UNCHANGED <<clockVars, mapVars, triggers, blVars, peers, selVars, pingVars, mainVars, lockVars>>

SelBegin ==
    /\ reselection_count < MaxCycles
    /\ \E triggered \in BOOLEAN, draws \in PoolPicks : SelectorBegin(triggered, draws)
    /\ UNCHANGED <<clockVars, mapVars, blVars, rcVars, pingVars, mainVars, lockVars>>

SelFinish ==
    /\ \E js \in ShuffleDraws(candidate_pool_num - 1) : SelectorFinish(js)
    /\ UNCHANGED <<clockVars, mapVars, triggers, blVars, rcVars, pingVars, mainVars, lockVars>>

Next ==
    \/ Clock \/ SenderStep \/ ReplyStep \/ BaselinerFails
    \/ RcStart \/ RcTick \/ RcFails
    \/ SelBegin \/ SelFinish

Spec == SpecInit /\ [][Next]_vars

----------------------------------------------------------------------------
(* The ReflectorSelector with a Baseliner and a RateController that send *)
(* it triggers                                                            *)

\* the reflectors whose replies arrive
SelResponders == {1, 2, 3, 4, 5}

\* <<up_time, down_time>> of the replies of r: the later defaults are nearer
SelSampleOf(r) == <<Ms(5 * (12 - r)), Ms(5 * (12 - r))>>

SelUnseen == {r \in SelResponders \cap Range(peers) : ~InBothMaps(r)}

\* a peer answers for the first time, the peers in turn, or a reply of the
\* first reflector is more than 5 s late
SelReply ==
    /\ samples_seen < MaxSelReplies
    /\ \/ \E r \in {u \in SelUnseen : \A q \in SelUnseen : u <= q} :
             /\ ListenerAccepts(r)
             /\ BaselinerRun(r, SelSampleOf(r)[1], SelSampleOf(r)[2], now)
       \/ /\ InBothMaps(1)
          /\ ListenerAccepts(1)
          /\ BaselinerRun(1, Late[1], Late[2], now)
    /\ UNCHANGED <<clockVars, peers, rcVars, selVars, pingVars, mainVars, lockVars>>

SelectBegin ==
    /\ reselection_count < MaxSelCycles
    /\ \E triggered \in BOOLEAN, draws \in PoolPicks : SelectorBegin(triggered, draws)
    /\ UNCHANGED <<clockVars, mapVars, blVars, rcVars, pingVars, mainVars, lockVars>>

NextSelect ==
    \/ SelReply \/ SelectBegin \/ SelFinish \/ BaselinerFails
    \/ Clock \/ RcStart \/ RcTick \/ RcFails

SpecSelect == SpecInit /\ [][NextSelect]_vars

----------------------------------------------------------------------------
(* main and its worker threads: each worker can end, main joins them *)

\* a reply of a peer, or a reply that is shorter than its header
MainReceive ==
    /\ reported < MaxReported
    /\ \E form \in {"well_formed", "no_header"} :
            receive_loop(1, ReplyType(measurement_type), id, form)
    /\ UNCHANGED <<clockVars, mapVars, triggers, blVars, peers, rcVars, selVars,
                   send_idx, loopVars, mainVars, lockVars>>

\* an iteration of the sender loop, whose first send can fail
MainSend ==
    /\ seq < MaxMainSeq
    /\ \E failing \in {0, 1} : sender_loop(failing, FALSE)
    /\ UNCHANGED <<clockVars, mapVars, triggers, blVars, peers, rcVars, selVars,
                   send_idx, listenVars, mainVars, lockVars>>

MainBaselinerEnds ==
    /\ BaselinerDisconnected
    /\ UNCHANGED <<clockVars, mapVars, triggers, peers, rcVars, selVars, pingVars, mainVars, lockVars>>

MainRcTick ==
    /\ rc_ticks < MaxTicks
    /\ \E stats_ok \in BOOLEAN : RateTick(stats_ok, "none", Kbit(100), Kbit(100), 1, 1)
    /\ UNCHANGED <<clockVars, mapVars, blVars, peers, selVars, pingVars, mainVars, lockVars>>

MainJoinStep ==
    /\ MainJoin
    /\ UNCHANGED <<clockVars, mapVars, triggers, blVars, peers, rcVars, selVars, pingVars,
                   lockVars>>

NextMain ==
    \/ Clock \/ MainReceive \/ MainSend \/ MainBaselinerEnds \/ BaselinerFails
    \/ RcStart \/ MainRcTick \/ RcFails
    \/ SelBegin \/ SelFinish
    \/ MainJoinStep

\* time passes, and main's join returns once the thread it waits for has
\* ended; no worker is bound to end
SpecMain ==
    SpecInit /\ [][NextMain]_vars /\ WF_vars(Clock) /\ WF_vars(MainJoinStep)

----------------------------------------------------------------------------
(* The lock operations of the Baseliner, the RateController and the *)
(* ReflectorSelector, interleaved                                    *)

LockInit == InitWith(LargePool) /\ measurement_type = IcmpTimestamps

BaselinerLockStep ==
    /\ BaselinerLocks
    /\ UNCHANGED <<clockVars, mapVars, triggers, blVars, peers, rcVars, selVars, pingVars,
                   mainVars>>

RatecontrollerLockStep ==
    /\ RatecontrollerLocks
    /\ UNCHANGED <<clockVars, mapVars, triggers, blVars, peers, rcVars, selVars, pingVars,
                   mainVars>>

\* recv_timeout returns and the cycle is counted before the first write()
ReflectorSelectorLockStep ==
    /\ ReflectorSelectorLocks
    /\ IF pc["reselection"] = "wait"
       THEN /\ reselection_count < MaxLockCycles
            /\ reselection_count' = reselection_count + 1
       ELSE UNCHANGED reselection_count
    /\ UNCHANGED <<clockVars, mapVars, triggers, blVars, peers, rcVars, reflector_pool,
                   sel_state, next_peers, selector_sleep_time, sel_last, pingVars,
                   mainVars>>

NextLocks == BaselinerLockStep \/ RatecontrollerLockStep \/ ReflectorSelectorLockStep

SpecLocks == LockInit /\ [][NextLocks]_vars

-----------------------------------------------------------------------------
(* The ReflectorSelector followed over more than forty cycles *)

TimeoutInit == InitWith(LargePool) /\ measurement_type = IcmpTimestamps

TimeoutBegin ==
    /\ reselection_count < MaxTimeoutCycles
    /\ \E triggered \in BOOLEAN, draws \in PoolPicks : SelectorBegin(triggered, draws)
    /\ UNCHANGED <<clockVars, mapVars, blVars, rcVars, pingVars, mainVars, lockVars>>

NextTimeout == SelReply \/ TimeoutBegin \/ SelFinish

SpecTimeout == TimeoutInit /\ [][NextTimeout]_vars

-----------------------------------------------------------------------------
(* The selector's cycle with its locks: the peer list and the maps change *)
(* where the guards are dropped                                           *)

\* the replies of the default peers reach the Baseliner in turn
SleepUnseen == {r \in SelResponders : ~InBothMaps(r)}

SleepBaselinerStep ==
    /\ \/ /\ samples_seen < MaxSelReplies
          /\ SleepUnseen # {}
          /\ LockMutex("baseliner", "owd_baseline", "recv", "has_baseline")
          /\ UNCHANGED <<mapVars, triggers, blVars>>
       \/ /\ LockMutex("baseliner", "owd_recent", "has_baseline", "update")
          /\ UNCHANGED <<mapVars, triggers, blVars>>
       \/ /\ \/ LockPoisoned("baseliner", "owd_baseline", "recv")
             \/ LockPoisoned("baseliner", "owd_recent", "has_baseline")
          /\ BaselinerPoisoned
          /\ UNCHANGED <<mapVars, triggers>>
       \/ /\ DropGuards("baseliner", "update", "recv")
          /\ \E r \in {u \in SleepUnseen : \A q \in SleepUnseen : u <= q} :
                BaselinerRun(r, SelSampleOf(r)[1], SelSampleOf(r)[2], now)
    /\ UNCHANGED <<clockVars, peers, rcVars, selVars, pingVars, mainVars>>

\* the recv_timeout returns after the timeout; the peer list is extended
\* under the write lock and ranked under the write lock and owd_recent
SleepSelectorStep ==
    /\ \/ /\ reselection_count < MaxLockCycles
          /\ WritePeers("reselection", "wait", "extend")
          /\ UNCHANGED <<triggers, peers, selVars>>
       \/ /\ DropGuards("reselection", "extend", "baseline_sleep")
          /\ \E draws \in PoolPicks : SelectorBegin(FALSE, draws)
       \/ /\ WritePeers("reselection", "baseline_sleep", "has_peers")
          /\ UNCHANGED <<triggers, peers, selVars>>
       \/ /\ LockMutex("reselection", "owd_recent", "has_peers", "select")
          /\ UNCHANGED <<triggers, peers, selVars>>
       \/ /\ \E js \in ShuffleDraws(candidate_pool_num - 1) : SelectorFinish(js)
          /\ IF SliceInRange(Candidates(next_peers, owd_recent))
             THEN DropGuards("reselection", "select", "wait")
             ELSE Panic("reselection", "select")
          /\ UNCHANGED triggers
    /\ UNCHANGED <<clockVars, mapVars, blVars, rcVars, pingVars, mainVars>>

NextSleep == SleepBaselinerStep \/ SleepSelectorStep \/ RatecontrollerLockStep

SpecSleep == LockInit /\ [][NextSleep]_vars

-----------------------------------------------------------------------------
(* The start of the RateController with every ring of small draws *)

\* the values of next_u64() as f64, which range over 0..2^64, for one ring
InitialDraws == [1..speed_hist_size -> 0..MaxInitialDraw]

\* main's sleeps
SpeedsClock ==
    /\ now < RcStartTime
    /\ now' = RcStartTime
    /\ clock_steps' = clock_steps + 1
    /\ UNCHANGED <<mapVars, triggers, blVars, peers, rcVars, selVars, pingVars, mainVars, lockVars>>

SpeedsStart ==
    /\ \E rnds_dl \in InitialDraws, rnds_ul \in InitialDraws : RateControllerStart(rnds_dl, rnds_ul)
    /\ UNCHANGED <<clockVars, mapVars, triggers, blVars, peers, selVars, pingVars, mainVars, lockVars>>

NextSpeeds == SpeedsClock \/ SpeedsStart

SpecSpeeds == Init /\ [][NextSpeeds]_vars

-----------------------------------------------------------------------------
(* The Baseliner write by write, and the RateController that reads the two *)
(* maps under the same mutexes                                             *)

\* Baseliner::run in the steps of its writes: the sample (r, up, down, t) is
\* received and the mutexes are locked; the entries are inserted; a stale
\* pair is reset and the receive times are set; an anomalous sample marks the
\* pair and sends a trigger, any other updates the baseline, then the recent
\* entry, then clamps the baseline; the guards are dropped.
BaselinerSteps(r, up, down, t) ==
    LET reflector == bl_last.reflector
        new       == ReflectorStats(bl_last.down_time, bl_last.up_time,
                                    bl_last.last_receive_time_s)
        baseline  == owd_baseline[reflector]
        recent    == owd_recent[reflector]
        stale     == IsStale(new.last_receive_time_s, baseline, recent)
        anomalous == IsAnomalous(new.up_ewma, new.down_ewma, baseline)
    IN  /\ bl_state = "running"
        /\ UNCHANGED bl_state
        /\ \/ /\ LockMutex("baseliner", "owd_baseline", "recv", "has_baseline")
              /\ bl_last' = [NoSample EXCEPT !.reflector = r, !.up_time = up,
                                !.down_time = down, !.last_receive_time_s = t]
              /\ UNCHANGED <<mapVars, triggers, marked, samples_seen>>
           \/ /\ LockMutex("baseliner", "owd_recent", "has_baseline", "update")
              /\ UNCHANGED <<mapVars, triggers, bl_last, marked, samples_seen>>
           \/ /\ Proceed("baseliner", "update", "inserted")
              /\ owd_baseline' = Put(owd_baseline, reflector,
                                     or_insert(owd_baseline, reflector, new))
              /\ owd_recent' = Put(owd_recent, reflector,
                                   or_insert(owd_recent, reflector, new))
              /\ bl_last' = [bl_last EXCEPT
                                !.first = ~contains_key(owd_baseline, reflector)]
              /\ UNCHANGED <<triggers, marked, samples_seen>>
           \/ /\ Proceed("baseliner", "inserted", "stamped")
              /\ owd_baseline' = Put(owd_baseline, reflector,
                     [(IF stale THEN new ELSE baseline) EXCEPT
                         !.last_receive_time_s = new.last_receive_time_s])
              /\ owd_recent' = Put(owd_recent, reflector,
                     [(IF stale THEN new ELSE recent) EXCEPT
                         !.last_receive_time_s = new.last_receive_time_s])
              /\ bl_last' = [bl_last EXCEPT !.stale = stale]
              /\ UNCHANGED <<triggers, marked, samples_seen>>
           \/ /\ Proceed("baseliner", "stamped", "done")
              /\ anomalous
              /\ owd_baseline' = Put(owd_baseline, reflector, MarkBad(baseline))
              /\ owd_recent' = Put(owd_recent, reflector, MarkBad(recent))
              /\ triggers' = SendTrigger(triggers)
              /\ bl_last' = [bl_last EXCEPT !.anomalous = TRUE]
              /\ UNCHANGED <<marked, samples_seen>>
           \/ /\ Proceed("baseliner", "stamped", "baseline_updated")
              /\ ~anomalous
              /\ owd_baseline' = Put(owd_baseline, reflector,
                     UpdateEwma(baseline, new.up_ewma, new.down_ewma, slow_factor))
              /\ UNCHANGED <<owd_recent, triggers, bl_last, marked, samples_seen>>
           \/ /\ Proceed("baseliner", "baseline_updated", "recent_updated")
              /\ owd_recent' = Put(owd_recent, reflector,
                     UpdateEwma(recent, new.up_ewma, new.down_ewma, fast_factor))
              /\ UNCHANGED <<owd_baseline, triggers, bl_last, marked, samples_seen>>
           \/ /\ Proceed("baseliner", "recent_updated", "done")
              /\ owd_baseline' = Put(owd_baseline, reflector,
                                     ClampBaseline(baseline, recent))
              /\ bl_last' = [bl_last EXCEPT
                                !.above_recent = \/ baseline.down_ewma > recent.down_ewma
                                                 \/ baseline.up_ewma > recent.up_ewma]
              /\ UNCHANGED <<owd_recent, triggers, marked, samples_seen>>
           \/ /\ DropGuards("baseliner", "done", "recv")
              /\ marked' = IF bl_last.anomalous THEN marked \cup {reflector}
                           ELSE marked \ {reflector}
              /\ samples_seen' = samples_seen + 1
              /\ UNCHANGED <<mapVars, triggers, bl_last>>

\* the default peers answer in turn
DeltasReflector == (samples_seen % 3) + 1

\* <<up_time, down_time>>: an idle link, much queueing delay, or a reply that
\* is more than 5 s late
DeltasSamples == {Idle, Heavy, Late}

DeltasBaselinerStep ==
    /\ pc["baseliner"] = "recv" => samples_seen < MaxDeltasSamples
    /\ \E s \in DeltasSamples : BaselinerSteps(DeltasReflector, s[1], s[2], now)
    /\ UNCHANGED <<clockVars, peers, rcVars, selVars, pingVars, mainVars>>

DeltasRcStep ==
    /\ now >= RcStartTime
    /\ RatecontrollerLockStep

NextDeltas == SpeedsClock \/ DeltasBaselinerStep \/ DeltasRcStep

SpecDeltas == Init /\ [][NextDeltas]_vars

----------------------------------------------------------------------------
(* Claims about the Baseliner *)

\* a step of the Baseliner, as opposed to a step of another thread
BaselinerStepped == samples_seen' = samples_seen + 1

\* C1: whatever samples the Baseliner has processed, every reflector that is
\* in both maps has baseline.down_ewma <= recent.down_ewma and
\* baseline.up_ewma <= recent.up_ewma.
C1_EwmaOrdering ==
    \A r \in DOMAIN owd_baseline \cap DOMAIN owd_recent :
        /\ owd_baseline[r].down_ewma <= owd_recent[r].down_ewma
        /\ owd_baseline[r].up_ewma <= owd_recent[r].up_ewma

\* C1 witness: a sample after which the slow EWMA was above the fast one,
\* for a reflector that has been reset by staleness before or not, with an
\* anomalous sample seen as well.
C1_Witness ==
    /\ bl_last.above_recent
    /\ InBothMaps(bl_last.reflector)
    /\ owd_baseline[bl_last.reflector].down_ewma
            = owd_recent[bl_last.reflector].down_ewma
    /\ owd_recent[bl_last.reflector].down_ewma # bl_last.down_time
    /\ triggers > 0

\* C8: a sample that is more than 5000 ms above the baseline it is compared
\* with, in either direction, sets last_receive_time_s of its reflector to
\* the start time in both maps, sends exactly one trigger and leaves the
\* four EWMAs as they were.
C8_AnomalousSample ==
    [][LET r    == bl_last'.reflector
           up   == bl_last'.up_time
           down == bl_last'.down_time
           t    == bl_last'.last_receive_time_s
       IN  (/\ BaselinerStepped
            /\ InBothMaps(r)
            /\ duration_since(t, owd_baseline[r].last_receive_time_s)
                    <= 30 * TicksPerSecond
            /\ duration_since(t, owd_recent[r].last_receive_time_s)
                    <= 30 * TicksPerSecond
            /\ \/ up > owd_baseline[r].up_ewma + Ms(5000)
               \/ down > owd_baseline[r].down_ewma + Ms(5000))
           => (/\ owd_baseline'[r].last_receive_time_s = start_time
               /\ owd_recent'[r].last_receive_time_s = start_time
               /\ triggers' = triggers + 1
               /\ owd_baseline'[r].down_ewma = owd_baseline[r].down_ewma
               /\ owd_baseline'[r].up_ewma = owd_baseline[r].up_ewma
               /\ owd_recent'[r].down_ewma = owd_recent[r].down_ewma
               /\ owd_recent'[r].up_ewma = owd_recent[r].up_ewma)]_vars

\* C8 witness: an anomalous sample in the down direction only, processed
\* after the clock has left the start time, has marked its reflector.
C8_Witness ==
    /\ bl_last.anomalous
    /\ bl_last.last_receive_time_s > start_time
    /\ bl_last.up_time <= owd_baseline[bl_last.reflector].up_ewma + Ms(5000)
    /\ owd_baseline[bl_last.reflector].last_receive_time_s = start_time
    /\ owd_recent[bl_last.reflector].last_receive_time_s = start_time
    /\ triggers = 1

\* C39: the next sample of a stale-marked reflector that arrives more than
\* 30 s after the start is handled as stale: the four EWMAs become the
\* values of the sample, the sample is not anomalous whatever the baseline
\* was, no trigger is sent, and the receive time of both entries is the
\* sample's, so the reflector is no longer marked.
C39_StaleMarkedReset ==
    [][LET r    == bl_last'.reflector
           up   == bl_last'.up_time
           down == bl_last'.down_time
           t    == bl_last'.last_receive_time_s
       IN  (/\ BaselinerStepped
            /\ r \in marked
            /\ owd_baseline[r].last_receive_time_s = start_time
            /\ owd_recent[r].last_receive_time_s = start_time
            /\ t > start_time + 30 * TicksPerSecond)
           => (/\ bl_last'.stale
               /\ ~bl_last'.anomalous
               /\ owd_baseline'[r] = ReflectorStats(down, up, t)
               /\ owd_recent'[r] = ReflectorStats(down, up, t)
               /\ triggers' = triggers
               /\ r \notin marked')]_vars

\* a reflector had an idle sample, was marked by a sample 6 s above it and,
\* more than 30 s after the start, was reset by another such sample
C39_Witness ==
    /\ samples_seen = 3
    /\ DOMAIN owd_baseline = {1}
    /\ triggers = 1
    /\ marked = {}
    /\ bl_last.stale /\ ~bl_last.anomalous
    /\ bl_last.down_time = Ms(6000)
    /\ owd_baseline[1] = ReflectorStats(Ms(6000), Ms(10), now)
    /\ owd_recent[1] = owd_baseline[1]
    /\ now > start_time + 30 * TicksPerSecond

\* C14: a sample that equals what its reflector's four EWMAs hold (as they
\* do after a first sample, and so after any number of identical samples)
\* leaves the four EWMAs at that value, whatever the time since the last
\* sample, and the Baseliner sends no trigger for it.
C14_SteadySamples ==
    [][LET r    == bl_last'.reflector
           up   == bl_last'.up_time
           down == bl_last'.down_time
       IN  (/\ BaselinerStepped
            /\ \/ ~contains_key(owd_baseline, r) /\ ~contains_key(owd_recent, r)
               \/ /\ InBothMaps(r)
                  /\ owd_baseline[r].down_ewma = down
                  /\ owd_baseline[r].up_ewma = up
                  /\ owd_recent[r].down_ewma = down
                  /\ owd_recent[r].up_ewma = up)
           => (/\ owd_baseline'[r].down_ewma = down
               /\ owd_baseline'[r].up_ewma = up
               /\ owd_recent'[r].down_ewma = down
               /\ owd_recent'[r].up_ewma = up
               /\ triggers' = triggers
               /\ r \notin marked')]_vars

\* three samples of 10 ms for one reflector, half a second apart in all
C14_Witness ==
    /\ samples_seen = 3
    /\ now = 2
    /\ DOMAIN owd_recent = {1}
    /\ ~bl_last.first
    /\ bl_last.last_receive_time_s > start_time
    /\ owd_baseline[1].down_ewma = Ms(10) /\ owd_baseline[1].up_ewma = Ms(10)
    /\ owd_recent[1].down_ewma = Ms(10) /\ owd_recent[1].up_ewma = Ms(10)
    /\ triggers = 0

\* C15: a sample whose down_time is exactly baseline.down_ewma + 5000 ms and
\* whose up_time is not above baseline.up_ewma + 5000 ms, for a reflector
\* that is not stale, sends no trigger and does not stale-mark the
\* reflector: the receive time becomes the sample's, the recent EWMA takes
\* the fast update and the baseline the slow one, clamped to the recent.
C15_BoundarySample ==
    [][LET r    == bl_last'.reflector
           up   == bl_last'.up_time
           down == bl_last'.down_time
           t    == bl_last'.last_receive_time_s
           fast == (owd_recent[r].down_ewma * fast_factor
                        + (1000 - fast_factor) * down + 500) \div 1000
           slow == (owd_baseline[r].down_ewma * slow_factor
                        + (1000 - slow_factor) * down + 500) \div 1000
       IN  (/\ BaselinerStepped
            /\ InBothMaps(r)
            /\ duration_since(t, owd_baseline[r].last_receive_time_s)
                    <= 30 * TicksPerSecond
            /\ duration_since(t, owd_recent[r].last_receive_time_s)
                    <= 30 * TicksPerSecond
            /\ down = owd_baseline[r].down_ewma + Ms(5000)
            /\ up <= owd_baseline[r].up_ewma + Ms(5000))
           => (/\ triggers' = triggers
               /\ r \notin marked'
               /\ owd_baseline'[r].last_receive_time_s = t
               /\ owd_recent'[r].last_receive_time_s = t
               /\ owd_recent'[r].down_ewma = fast
               /\ owd_baseline'[r].down_ewma = IF slow > fast THEN fast ELSE slow)]_vars

\* the second sample of a reflector, 5000 ms above its baseline of 10 ms and
\* a tick after the first, was taken into the EWMAs
C15_Witness ==
    /\ samples_seen = 2
    /\ bl_last.down_time = Ms(5010)
    /\ ~bl_last.first /\ ~bl_last.stale /\ ~bl_last.anomalous
    /\ bl_last.last_receive_time_s > start_time
    /\ triggers = 0
    /\ marked = {}
    /\ owd_recent[bl_last.reflector].last_receive_time_s = bl_last.last_receive_time_s
    /\ owd_recent[bl_last.reflector].down_ewma
            = (Ms(10) * fast_factor + (1000 - fast_factor) * Ms(5010) + 500) \div 1000
    /\ owd_baseline[bl_last.reflector].down_ewma
            = (Ms(10) * slow_factor + (1000 - slow_factor) * Ms(5010) + 500) \div 1000

RateTicked == rc_ticks' = rc_ticks + 1

\* C2: after every RateController tick the current rate of each direction
\* is at least the configured minimum rate of that direction.
C2_RateFloor ==
    (rc_ticks > 0 /\ rc_last.stats_ok) =>
        /\ cur_dl_rate >= download_min_kbits
        /\ cur_ul_rate >= upload_min_kbits

RingInv ==
    rc_state # "init" =>
        /\ nrate_down \in 0..(speed_hist_size - 1)
        /\ nrate_up \in 0..(speed_hist_size - 1)
        /\ Len(safe_dl_rates) = speed_hist_size
        /\ Len(safe_ul_rates) = speed_hist_size

\* C5: once the controller is initialised, nrate of each direction is in
\* 0..speed_hist_size-1 and each ring has speed_hist_size entries; a tick
\* that probes up leaves every ring entry but the one at nrate as it was and
\* advances nrate by one modulo speed_hist_size.
C5_SafeRateRing ==
    /\ []RingInv
    /\ [][RateTicked =>
            /\ rc_last'.dl_probe =>
                /\ \A i \in 1..speed_hist_size :
                      i # nrate_down + 1 => safe_dl_rates'[i] = safe_dl_rates[i]
                /\ nrate_down' = (nrate_down + 1) % speed_hist_size
            /\ rc_last'.ul_probe =>
                /\ \A i \in 1..speed_hist_size :
                      i # nrate_up + 1 => safe_ul_rates'[i] = safe_ul_rates[i]
                /\ nrate_up' = (nrate_up + 1) % speed_hist_size]_vars

\* both directions probed up in every tick and the indices wrapped to 0
C5_Witness ==
    /\ rc_ticks = speed_hist_size
    /\ rc_last.dl_probe /\ rc_last.ul_probe
    /\ nrate_down = 0 /\ nrate_up = 0
    /\ safe_dl_rates = <<Kbit(900), Kbit(900)>>

\* 0.75 * base_rate <= rate <= 0.95 * base_rate
AroundBase(rate, base_rate) ==
    75 * base_rate <= 100 * rate /\ 100 * rate <= 95 * base_rate

\* C33: right after the initialisation every entry of the two rings of safe
\* rates is at least 0.75 and at most 0.95 times the base rate of its
\* direction, whatever the random generator returned
C33_InitialSpeedsAroundBase ==
    (rc_state = "running" /\ rc_ticks = 0) =>
        \A i \in 1..speed_hist_size :
            /\ AroundBase(safe_dl_rates[i], download_base_kbits)
            /\ AroundBase(safe_ul_rates[i], upload_base_kbits)

\* the reflectors whose deltas the last tick took
Included == Range(rc_last.included)

\* C3: a tick takes a delta of a reflector only if the reflector is in the
\* peer list, has an entry in both maps, and its last_receive_time_s in
\* both maps is newer than now - 2 * tick_interval.
C3_StalenessGate ==
    [][RateTicked =>
        \A r \in Range(rc_last'.included) :
            /\ r \in Range(peers)
            /\ contains_key(owd_baseline, r)
            /\ contains_key(owd_recent, r)
            /\ owd_baseline[r].last_receive_time_s > now - 2 * tick_interval
            /\ owd_recent[r].last_receive_time_s > now - 2 * tick_interval]_vars

\* a tick took the deltas of some peers and left out a peer whose last
\* sample had grown older than the window
C3_Witness ==
    /\ rc_ticks > 0
    /\ Included # {}
    /\ \E r \in Range(peers) \ Included :
          /\ InBothMaps(r)
          /\ r \notin marked
          /\ owd_recent[r].last_receive_time_s > RcStartTime
          /\ owd_recent[r].last_receive_time_s <= lastchg_t - 2 * tick_interval

\* C9: no tick takes the deltas of a reflector that an anomalous sample
\* stale-marked and that has had no non-anomalous sample since.
C9_StaleMarkedExcluded ==
    [][RateTicked => Range(rc_last'.included) \cap marked = {}]_vars

\* the second tick left out the stale-marked reflector and took the rest
C9_Witness ==
    /\ rc_ticks = 2
    /\ triggers = 2
    /\ Cardinality(Included) = 4
    /\ \E r \in marked : r \notin Included /\ owd_recent[r].last_receive_time_s = start_time

\* the peers that pass the freshness gate
FreshCount ==
    Cardinality({i \in DOMAIN peers :
        /\ InBothMaps(peers[i])
        /\ owd_recent[peers[i]].last_receive_time_s > now - 2 * tick_interval})

\* C10: a tick with a non-empty peer list sends one reselection trigger if
\* fewer than 5 peers pass the freshness gate, and none if 5 or more do.
C10_TriggerBelowFive ==
    [][(RateTicked /\ Len(peers) > 0) =>
        /\ rc_last'.trigger <=> FreshCount < 5
        /\ triggers' = triggers + (IF FreshCount < 5 THEN 1 ELSE 0)]_vars

\* a tick with five fresh peers sent none, the tick after one of them was
\* stale-marked sent one
C10_Witness ==
    /\ rc_ticks = 2
    /\ rc_last.trigger
    /\ triggers = 2
    /\ Len(rc_last.included) = 4
    /\ bl_last.anomalous

\* C11: a tick with a non-empty peer list, readable interface statistics
\* and fewer than 3 peers passing the freshness gate evaluates neither the
\* probe-up nor the back-off rule (safe_rates and nrate keep their values),
\* proposes the minimum rates, and leaves each current rate at
\* round(min_rate) once both rates are applied.
C11_FewDeltasFloor ==
    [][(RateTicked /\ Len(peers) > 0 /\ rc_last'.stats_ok /\ FreshCount < 3) =>
        /\ rc_last'.dl_proposed = download_min_kbits
        /\ rc_last'.ul_proposed = upload_min_kbits
        /\ ~rc_last'.dl_probe /\ ~rc_last'.ul_probe
        /\ ~rc_last'.dl_backoff /\ ~rc_last'.ul_backoff
        /\ UNCHANGED <<safe_dl_rates, safe_ul_rates, nrate_down, nrate_up>>
        /\ rc_last'.qdisc_error = "none" =>
               /\ cur_dl_rate' = Round(download_min_kbits)
               /\ cur_ul_rate' = Round(upload_min_kbits)]_vars

\* a tick took the deltas of two fresh peers and floored both rates
C11_Witness ==
    /\ rc_ticks > 0
    /\ rc_last.floored
    /\ Len(rc_last.included) = 2
    /\ rc_last.set_dl /\ rc_last.set_ul
    /\ cur_dl_rate = Kbit(100)
    /\ cur_ul_rate = Kbit(50)
    /\ qdisc_dl = Kbit(100)

\* C17: in a tick where a direction has 0 < delta_stat < its delay threshold
\* and load > high_load_level, the proposed rate of that direction is
\* current_rate * (1 + 0.1 * max(0, 1 - current_rate / max(safe_rates)))
\* + 0.03 * base_rate of that direction, with max(safe_rates) taken after
\* floor(current_rate * load) was stored at index nrate.
C17_ProbeUpRate ==
    [][(RateTicked /\ Len(peers) > 0 /\ rc_last'.stats_ok /\ FreshCount >= 3) =>
        /\ (/\ DeltaStat(down_deltas) > 0
            /\ DeltaStat(down_deltas) < download_delay_ms
            /\ rc_last'.rx_util * 1000 > high_load_level * cur_dl_rate)
           => rc_last'.dl_proposed =
                ProbeUpRate(cur_dl_rate,
                            MaxOf(StoreSafeRate(safe_dl_rates, nrate_down,
                                                rc_last'.rx_util)),
                            download_base_kbits)
        /\ (/\ DeltaStat(up_deltas) > 0
            /\ DeltaStat(up_deltas) < upload_delay_ms
            /\ rc_last'.tx_util * 1000 > high_load_level * cur_ul_rate)
           => rc_last'.ul_proposed =
                ProbeUpRate(cur_ul_rate,
                            MaxOf(StoreSafeRate(safe_ul_rates, nrate_up,
                                                rc_last'.tx_util)),
                            upload_base_kbits)]_vars

C19_QdiscOnlyOnChange ==
    [][RateTicked =>
        IF rc_last'.empty \/ ~rc_last'.stats_ok
        THEN /\ ~rc_last'.set_dl /\ ~rc_last'.set_ul
             /\ UNCHANGED <<qdisc_dl, qdisc_ul>>
        ELSE /\ rc_last'.set_dl <=> rc_last'.next_dl # cur_dl_rate
             /\ rc_last'.set_ul <=> (/\ rc_last'.next_ul # cur_ul_rate
                                     /\ rc_last'.qdisc_error # "dl")
             /\ ~rc_last'.set_dl => qdisc_dl' = qdisc_dl
             /\ ~rc_last'.set_ul => qdisc_ul' = qdisc_ul
             /\ (rc_last'.set_dl /\ rc_last'.qdisc_error # "dl")
                    => qdisc_dl' = rc_last'.next_dl
             /\ (rc_last'.set_ul /\ rc_last'.qdisc_error = "none")
                    => qdisc_ul' = rc_last'.next_ul]_vars

\* a tick raised the download rate and held the upload rate
C19_Witness ==
    /\ rc_ticks > 0
    /\ rc_last.stats_ok
    /\ rc_last.dl_probe
    /\ rc_last.set_dl /\ ~rc_last.set_ul
    /\ rc_last.qdisc_error = "none"
    /\ qdisc_dl = cur_dl_rate
    /\ qdisc_ul = Kbit(300)

\* C38: while the controller runs, from its initialisation on and after
\* every tick, the rate last written to the qdisc of a direction is the
\* current rate of that direction rounded to whole kbit/s
C38_QdiscFollowsRate ==
    rc_state = "running" =>
        /\ qdisc_dl = Round(cur_dl_rate)
        /\ qdisc_ul = Round(cur_ul_rate)

\* a tick that held both rates follows one that changed both, and the
\* qdisc rates are no longer those of the initialisation
C38_Witness ==
    /\ rc_state = "running"
    /\ rc_ticks = 2
    /\ ~rc_last.set_dl /\ ~rc_last.set_ul
    /\ rc_last.stats_ok
    /\ qdisc_dl # Round((download_base_kbits * 6) \div 10)
    /\ qdisc_ul # Round((upload_base_kbits * 6) \div 10)

\* C21: a tick whose get_interface_stats call fails is skipped: the rates,
\* the safe rates and the qdisc rates keep their values and the
\* RateController keeps running.
C21_StatsFailureSkipped ==
    [][(RateTicked /\ ~rc_last'.stats_ok) =>
        /\ rc_state' = "running"
        /\ UNCHANGED <<cur_dl_rate, cur_ul_rate, safe_dl_rates, safe_ul_rates,
                       qdisc_dl, qdisc_ul>>]_vars

\* what a direction's rules decide from its own inputs alone
DecisionOf(delta_stat, probe_ms, backoff_ms, utilisation, cur_rate) ==
    IF BackOffFires(delta_stat, backoff_ms) THEN "back_off"
    ELSE IF ProbeUpFires(delta_stat, probe_ms, utilisation, cur_rate) THEN "raise"
    ELSE "hold"

\* what the last tick decided for a direction
DecisionTaken(backoff, probe) ==
    IF backoff THEN "back_off" ELSE IF probe THEN "raise" ELSE "hold"

\* C27: in a tick that evaluates the rules, the decision of each direction
\* (raise, back off or hold) is the one its own delta_stat, load and
\* current rate give, whatever the delta_stat and the load of the other
\* direction are.
C27_DirectionsIndependent ==
    [][(RateTicked /\ Len(peers) > 0 /\ rc_last'.stats_ok /\ FreshCount >= 3) =>
        /\ DecisionTaken(rc_last'.dl_backoff, rc_last'.dl_probe)
              = DecisionOf(DeltaStat(down_deltas), download_delay_ms,
                           download_delay_ms, rc_last'.rx_util, cur_dl_rate)
        /\ DecisionTaken(rc_last'.ul_backoff, rc_last'.ul_probe)
              = DecisionOf(DeltaStat(up_deltas), download_delay_ms,
                           upload_delay_ms, rc_last'.tx_util, cur_ul_rate)]_vars

\* the tick evaluates the rules: three or more fresh peers and both delta
\* statistics positive
RulesEvaluated ==
    /\ RateTicked /\ Len(peers) > 0 /\ rc_last'.stats_ok /\ FreshCount >= 3
    /\ DeltaStat(down_deltas) > 0 /\ DeltaStat(up_deltas) > 0

\* C28: in a tick that evaluates the rules, the probe-up of the upload
\* direction fires exactly if up_delta_stat < upload_delay_ms and
\* tx_load > high_load_level, and a rate it proposes has the additive term
\* 0.03 * upload_base_kbits; the download direction uses download_delay_ms
\* and download_base_kbits in the same way.
C28_ProbeUpParameters ==
    [][RulesEvaluated =>
        /\ rc_last'.ul_probe <=>
                ProbeUpFires(DeltaStat(up_deltas), upload_delay_ms,
                             rc_last'.tx_util, cur_ul_rate)
        /\ (rc_last'.ul_probe /\ ~rc_last'.ul_backoff) =>
                rc_last'.ul_proposed
                    = ProbeUpRate(cur_ul_rate, MaxOf(safe_ul_rates'), upload_base_kbits)
        /\ rc_last'.dl_probe <=>
                ProbeUpFires(DeltaStat(down_deltas), download_delay_ms,
                             rc_last'.rx_util, cur_dl_rate)
        /\ (rc_last'.dl_probe /\ ~rc_last'.dl_backoff) =>
                rc_last'.dl_proposed
                    = ProbeUpRate(cur_dl_rate, MaxOf(safe_dl_rates'), download_base_kbits)]_vars

\* C29: in a tick that evaluates the rules, the back-off of a direction
\* fires whenever its delta_stat is greater than or equal to its delay
\* threshold: at delta_stat = threshold the tick proposes the minimum of
\* 0.9 * current_rate * load and a safe rate, and does not hold the rate.
C29_BackOffAtThreshold ==
    [][RulesEvaluated =>
        /\ DeltaStat(down_deltas) >= download_delay_ms =>
              /\ rc_last'.dl_backoff
              /\ \E i \in DOMAIN safe_dl_rates' :
                    rc_last'.dl_proposed
                      = Min(DivRound(9 * rc_last'.rx_util, 10), safe_dl_rates'[i])
        /\ DeltaStat(up_deltas) >= upload_delay_ms =>
              /\ rc_last'.ul_backoff
              /\ \E i \in DOMAIN safe_ul_rates' :
                    rc_last'.ul_proposed
                      = Min(DivRound(9 * rc_last'.tx_util, 10), safe_ul_rates'[i])]_vars

----------------------------------------------------------------------------
(* Claims about the sender loop *)

\* an iteration of sender_loop
SenderLooped == sender_state = "running" /\ loopVars' # loopVars

\* C16: an iteration of the sender loop whose probes are sent sends one
\* probe to every reflector, leaves the sender running and increases the
\* 16-bit sequence counter by one, from 65535 to 0.
C16_SeqWraps ==
    [][(SenderLooped /\ sender_last'.send_ok) =>
        /\ sender_last'.probes = Len(peers)
        /\ sender_state' = "running"
        /\ seq' = IF seq = U16Max THEN 0 ELSE seq + 1]_vars

\* C22: an iteration of the sender loop in which the send to one reflector
\* fails still probes every other reflector, leaves the sender running and
\* goes on to the next tick.
C22_SendFailureIgnored ==
    [][(SenderLooped /\ ~sender_last'.send_ok) =>
        /\ sender_last'.probes = Len(peers) - 1
        /\ sender_state' = "running"
        /\ seq' = (seq + 1) % (U16Max + 1)]_vars

----------------------------------------------------------------------------
(* Claims about the receive loop *)

\* an iteration of receive_loop
ListenerHandled == listener_state = "running" /\ listenVars' # listenVars

\* C23: a packet that cannot be parsed is dropped: no measurement is
\* reported for it and the listener keeps listening.
C23_UnparsableDropped ==
    [][(ListenerHandled /\ listener_last'.form \in {"no_header", "no_payload"}) =>
        /\ ~listener_last'.accepted
        /\ reported' = reported
        /\ listener_state' = "running"]_vars

\* C24: a packet is accepted, and a measurement reported for it, only if
\* its source is in the peer list, its identifier is the listener's id and
\* its ICMP type is the reply type of the configured measurement type.
C24_AcceptedOnlyFromPeers ==
    [][(ListenerHandled /\ (listener_last'.accepted \/ reported' # reported)) =>
        /\ listener_last'.source \in Range(peers)
        /\ listener_last'.identifier = id
        /\ listener_last'.icmp_type = ReplyType(measurement_type)]_vars

----------------------------------------------------------------------------
(* Claims about main's join loop *)

\* a worker thread has ended by returning an Err or by panicking
WorkerFailed ==
    \E i \in DOMAIN threads : Outcome(threads[i]) # "running"

\* C25: once a worker thread has ended with a fatal error, main eventually
\* observes it on join and the process ends with a failure status,
\* whichever worker it is and whether or not the others keep running.
C25_FailureEndsProcess == WorkerFailed ~> exit_status = "failure"

----------------------------------------------------------------------------
(* Claims about the locks *)

HeldBy(t) == {m \in Mutexes : mutex_owner[m] = t}

\* the thread is in netlink I/O or writes the statistics file
InIo(t) == pc[t] \in {"stats_io", "qdisc_io", "stats_file"}

\* the thread is blocked in read() of the peer list's lock
WaitsForPeers(t) ==
    t = "ratecontroller" /\ pc[t] = "has_recent" /\ rw_lock.writer # "none"

\* C26: a thread that holds owd_baseline or owd_recent is neither in
\* netlink I/O, nor writing the statistics file, nor waiting for the lock
\* of the peer list; both are held together only in the deltas loop of the
\* RateController and in the per-sample update of the Baseliner.
C26_MutexesHeldBriefly ==
    \A t \in Threads :
        /\ HeldBy(t) # {} => ~InIo(t) /\ ~WaitsForPeers(t)
        /\ HeldBy(t) = Mutexes =>
               \/ t = "ratecontroller" /\ pc[t] \in {"has_recent", "deltas"}
               \/ t = "baseliner" /\ pc[t] = "update"

\* C37: every delta the RateController collects in its loop over the
\* peers is at least 0, and so is the delta_stat of either direction,
\* whatever the Baseliner is doing: the controller reads no pair of entries
\* between two writes of an iteration of the Baseliner
C37_DeltasNonNegative ==
    pc["ratecontroller"] = "deltas" =>
        /\ pc["baseliner"] \in {"recv", "panicked"}
        /\ \A i \in 1..Len(FreshPeers) : down_deltas[i] >= 0 /\ up_deltas[i] >= 0
        /\ ~TooFewDeltas(Len(down_deltas), Len(up_deltas)) =>
               DeltaStat(down_deltas) >= 0 /\ DeltaStat(up_deltas) >= 0

\* the controller is in its loop with three peers fresh and a positive
\* delta while the Baseliner has a sample and waits for owd_baseline
C37_Witness ==
    /\ pc["ratecontroller"] = "deltas"
    /\ Len(FreshPeers) >= 3
    /\ \E i \in 1..Len(FreshPeers) : down_deltas[i] > 0
    /\ DeltaStat(down_deltas) > 0
    /\ samples_seen = 4
    /\ pc["baseliner"] = "recv"

\* the thread holds a mutex or the lock of the peer list
HoldsLock(t) == HeldBy(t) # {} \/ rw_lock.writer = t \/ t \in rw_lock.readers

\* the threads whose locks keep t from taking the lock it is about to take
BlockedBy(t) ==
    CASE pc[t] = "has_baseline" /\ t \in {"baseliner", "ratecontroller"} ->
            {mutex_owner["owd_recent"]} \cap Threads
      [] pc[t] = "has_peers" /\ t = "reselection" ->
            {mutex_owner["owd_recent"]} \cap Threads
      [] pc[t] = "has_recent" /\ t = "ratecontroller" ->
            {rw_lock.writer} \cap Threads
      [] OTHER -> {}

\* C34: no set of threads is such that each of them holds a lock and waits
\* for a lock that another of them holds
C34_NoLockCycle ==
    ~ \E waiting \in SUBSET Threads \ {{}} :
          \A t \in waiting : HoldsLock(t) /\ BlockedBy(t) \cap (waiting \ {t}) # {}

\* the selector is in the sleep that follows the extension of the peer list
SelectorSleeps == pc["reselection"] = "baseline_sleep"

\* C35: in its baselining sleep the selector holds neither the lock of the
\* peer list nor a mutex, so that read() returns, and the peer list is
\* next_peers: the peers before the cycle followed by the pool entries drawn
C35_SleepWithoutLocks ==
    /\ [](SelectorSleeps =>
            /\ rw_lock.writer = "none"
            /\ HeldBy("reselection") = {}
            /\ peers = next_peers)
    /\ [][(pc["reselection"] = "extend" /\ SelectorSleeps') =>
            /\ Len(peers') = Len(peers) + PoolDraws
            /\ SubSeq(peers', 1, Len(peers)) = peers
            /\ \A i \in (Len(peers) + 1)..Len(peers') : peers'[i] \in Range(reflector_pool)]_vars

\* the RateController holds the read lock during the sleep of the second
\* cycle and the list is the peers of the first cycle and the draws
C35_Witness ==
    /\ SelectorSleeps
    /\ "ratecontroller" \in rw_lock.readers
    /\ reselection_count = 2
    /\ Len(peers) = num_reflectors + PoolDraws
    /\ peers = next_peers

----------------------------------------------------------------------------
(* Claims about the peer list *)

\* C4: after a completed selector cycle the peer list has at most
\* num_reflectors entries and at most as many as the cycle had candidates
\* with an owd_recent entry.
C4_PeerSetSize ==
    (sel_state = "waiting" /\ sel_last.completed) =>
        /\ Len(peers) <= num_reflectors
        /\ Len(peers) <= sel_last.candidates

\* a cycle completed with three candidates and took a drawn pool entry
C4_Witness ==
    /\ sel_state = "waiting"
    /\ sel_last.completed
    /\ sel_last.candidates = 3
    /\ Len(peers) = num_reflectors
    /\ 7 \in Range(peers)

\* C36: the peer list a completed cycle installs holds no address twice
C36_NoDuplicatePeers ==
    (sel_state = "waiting" /\ sel_last.completed) =>
        Cardinality(Range(peers)) = Len(peers)

SelectorStepped ==
    \/ reselection_count' # reselection_count
    \/ sel_state = "baselining" /\ sel_state' # "baselining"

\* C7: only a step of the selector changes the peer list, and with a pool
\* of five or fewer the list stays the default list.
C7_OnlySelectorWrites ==
    /\ [][peers' # peers => SelectorStepped]_vars
    /\ [](Len(reflector_pool) <= 5 => peers = default_reflectors)

\* with a small pool the sender, the Baseliner and the controller ran and
\* triggers are queued, with the default list in place
C7_Witness ==
    /\ Len(reflector_pool) <= 5
    /\ triggers > 0
    /\ send_idx > 0
    /\ samples_seen > 0
    /\ rc_ticks > 0
    /\ peers = default_reflectors

----------------------------------------------------------------------------
(* Claims about the reselection channel and the selector's cycle *)

\* the second half of a cycle ran to its end
CycleCompleted == sel_state = "baselining" /\ sel_state' = "waiting"

\* C12: the triggers sent before or during a cycle that a trigger started
\* count as one: when the cycle completes, none of them is left in the
\* channel to start a cycle of its own.
C12_TriggersCoalesce ==
    [][(CycleCompleted /\ sel_last.triggered) => triggers' = 0]_vars

\* C13: a step of the Baseliner or of the RateController that sends a
\* trigger queues it and leaves the sender running, and the Baseliner runs
\* as long as the selector has not panicked, whether the selector waits, is
\* in a cycle or was never spawned.
C13_SendNeverStops ==
    /\ [][/\ (BaselinerStepped /\ bl_last'.anomalous) =>
                /\ triggers' = triggers + 1
                /\ bl_state' = "running"
          /\ (RateTicked /\ rc_last'.trigger) =>
                /\ triggers' = triggers + 1
                /\ (rc_last'.stats_ok /\ rc_last'.qdisc_error = "none")
                        => rc_state' = "running"]_vars
    /\ [](sel_state \in {"off", "waiting", "baselining"} => bl_state = "running")

\* the Baseliner and the controller each sent a trigger while the selector
\* was in the middle of its first cycle, which a timeout had started
C13_Witness ==
    /\ sel_state = "baselining"
    /\ reselection_count = 1
    /\ ~sel_last.triggered
    /\ triggers = 2
    /\ bl_last.anomalous
    /\ rc_ticks = 1 /\ rc_last.trigger
    /\ bl_state = "running"
    /\ rc_state = "running"

CycleStarted == sel_state = "waiting" /\ sel_state' = "baselining"

\* the peers of the k candidates of the least rtt
Nearest(candidates, k) ==
    {candidates[i][1] : i \in 1..Min(k, Len(candidates))}

\* C31: a cycle that completes keeps the 2 * num_reflectors candidates of the
\* least rtt, all of them if there are fewer, and takes its peers from them
C31_KeepsTwiceNumReflectors ==
    [][CycleCompleted =>
          /\ sel_last'.kept = Min(2 * num_reflectors, sel_last'.candidates)
          /\ Range(peers') \subseteq
                Nearest(sort_by(Candidates(next_peers, owd_recent)), 2 * num_reflectors)]_vars

\* C32: a cycle ends for any number of candidates: the first
\* min(num_reflectors, len) of them are the peer list, the selector waits
\* again and has not failed with the locks held
C32_CompletesForAnyLen ==
    [][(sel_state = "baselining" /\ sel_state' # "baselining") =>
          /\ sel_state' = "waiting"
          /\ ~Poisoned'
          /\ Len(peers') = Min(num_reflectors, sel_last'.candidates)]_vars

\* C30: the wait that precedes a cycle has the timeout 30 s while fewer than
\* 40 cycles have started and 15 minutes once 40 cycles have started, and
\* the cycle starts with a trigger taken from the channel or, the channel
\* empty, with the timeout
C30_TimeoutAfterForty ==
    [][CycleStarted =>
          /\ selector_sleep_time = IF reselection_count < 40 THEN 30 * TicksPerSecond
                                   ELSE 15 * 60 * TicksPerSecond
          /\ sel_last'.triggered = (triggers' < triggers)
          /\ ~sel_last'.triggered => triggers = 0]_vars

============================================================================
